---- MODULE Spec2Model ----
(***************************************************************************)
(* ScribeAI: the AudioProcessor buffer (src/server/index.ts 255-355) and   *)
(* the socket server's session handlers (src/server/index.ts 22-233).      *)
(*                                                                         *)
(* An ArrayBuffer held by an AudioProcessor is modelled by what addChunk   *)
(* and clearOldestChunks read of it: its identity (the arrival number of   *)
(* the call that passed it) and its byteLength, in bytes at full scale.    *)
(* mergeChunks reads the bytes themselves, so there an ArrayBuffer is the  *)
(* sequence of its bytes.                                                  *)
(***************************************************************************)
EXTENDS Integers, Sequences, FiniteSets, TLC

VARIABLES
    processor,      \* a stand-alone AudioProcessor: [chunks, currentBufferSize]
    call,           \* the last call made on it: [op, arg, pre, ret, prev]
    nCalls,         \* how many calls were made on it
    mergeIn,        \* the argument of a mergeChunks call
    mergeOut,       \* [returned, value]: whether the call returned, and what
    flattenIn,      \* the TranscriptChunk[] a stop-recording handler flattens
    flattenOut,     \* [returned, value]: the text it gets
    transcribeIn,   \* [timestamp, gemini] of a transcribeAudioChunk call
    transcribeOut,  \* [returned, value]: the fragment it resolves to
    apiKey,             \* whether process.env.GEMINI_API_KEY is set
    sessionProcessors,  \* Map<string, AudioProcessor>
    sessionTranscripts, \* Map<string, TranscriptChunk[]>
    rooms,              \* socket.io rooms: session id -> connections joined
    dbSessions,         \* prisma.session: id -> [status, duration]
    dbTranscripts,      \* prisma.transcript: sessionId -> [content, chunks]
    dbSummaries,        \* prisma.summary: sessionId -> [content]
    handlers,           \* the handler invocations that await something
    nEvents,            \* how many inbound events have arrived
    received,           \* session id -> how many events named it so far
    emits,              \* the events emitted by the last step, in order
    finished,           \* the handler invocation the last step ended, if any
    cleaned,            \* the session ids whose registry entry a stop removed
    summaryCalls        \* session id -> generateMeetingSummary calls made

bufVars == <<processor, call, nCalls>>
mergeVars == <<mergeIn, mergeOut>>
flattenVars == <<flattenIn, flattenOut>>
transcribeVars == <<transcribeIn, transcribeOut>>
\* what no handler changes: the configuration and the stand-alone objects
restVars == <<apiKey, processor, call, nCalls, mergeIn, mergeOut, flattenIn,
              flattenOut, transcribeIn, transcribeOut>>
registryVars == <<sessionProcessors, sessionTranscripts, cleaned>>
dbVars == <<dbSessions, dbTranscripts, dbSummaries>>
serverVars == <<apiKey, sessionProcessors, sessionTranscripts, rooms,
                dbSessions, dbTranscripts, dbSummaries, handlers, nEvents,
                received, emits, finished, cleaned, summaryCalls>>
vars == <<processor, call, nCalls, mergeIn, mergeOut, flattenIn, flattenOut,
          transcribeIn, transcribeOut,
          apiKey, sessionProcessors, sessionTranscripts, rooms, dbSessions,
          dbTranscripts, dbSummaries, handlers, nEvents, received, emits,
          finished, cleaned, summaryCalls>>

-----------------------------------------------------------------------------
(* Bounds of the model *)

MaxCalls == 6           \* calls made on the stand-alone AudioProcessor
MaxMergeChunks == 3     \* chunks in a mergeChunks argument
MaxChunkBytes == 2      \* bytes in one chunk of a mergeChunks argument
MaxEvents == 3          \* inbound events the server receives
MaxSessions == 2        \* session records prisma.session.create makes
MaxFragments == 3       \* fragments in a transcript that is flattened
MaxHalfSeconds == 9     \* the timestamp of a transcribed chunk, in 500 ms

-----------------------------------------------------------------------------
(* Program constants *)

maxBufferSize == 10 * 1024 * 1024
maxHttpBufferSize == 10000000

MiB == 1024 * 1024

\* byteLength of the chunks passed to addChunk: one byte, sizes of which two
\* or three fit under the ceiling, and the largest message the transport
\* delivers.
ChunkSizes == {1, 3 * MiB, 5 * MiB, maxHttpBufferSize}

\* byte values of the chunks passed to mergeChunks
Bytes == {0, 7}

BoundedSeq(S, n) == UNION {[1..k -> S] : k \in 0..n}

-----------------------------------------------------------------------------
(* AudioProcessor *)

NewAudioProcessor == [chunks |-> <<>>, currentBufferSize |-> 0]

\* chunks.reduce((sum, chunk) => sum + chunk.byteLength, 0)
RECURSIVE SumByteLength(_)
SumByteLength(chunks) ==
    IF chunks = <<>> THEN 0
    ELSE SumByteLength(SubSeq(chunks, 1, Len(chunks) - 1))
         + chunks[Len(chunks)].byteLength

clearOldestChunks_newest(this) ==
    LET halfSize == Len(this.chunks) \div 2
        kept == Len(this.chunks) - halfSize
        removedChunks == SubSeq(this.chunks, kept + 1, Len(this.chunks))
    IN  [chunks |-> SubSeq(this.chunks, 1, kept),
         currentBufferSize |->
             this.currentBufferSize - SumByteLength(removedChunks)]

clearOldestChunks(this) ==
    LET halfSize == Len(this.chunks) \div 2
        removedChunks == SubSeq(this.chunks, 1, halfSize)
        removedSize == SumByteLength(removedChunks)
    IN  [chunks |-> SubSeq(this.chunks, halfSize + 1, Len(this.chunks)),
         currentBufferSize |-> this.currentBufferSize - removedSize]

addChunk_reject(this, chunk) ==
    LET chunkSize == chunk.byteLength
    IN  IF this.currentBufferSize + chunkSize > maxBufferSize
        THEN [this |-> this, ret |-> FALSE]
        ELSE [this |-> [chunks |-> Append(this.chunks, chunk),
                        currentBufferSize |->
                            this.currentBufferSize + chunkSize],
              ret |-> TRUE]

\* the processor after the call, and the value returned
addChunk(this, chunk) ==
    LET chunkSize == chunk.byteLength
        t == IF this.currentBufferSize + chunkSize > maxBufferSize
             THEN clearOldestChunks(this)
             ELSE this
    IN  [this |-> [chunks |-> Append(t.chunks, chunk),
                   currentBufferSize |-> t.currentBufferSize + chunkSize],
         ret |-> TRUE]

clear_keepsCounter(this) ==
    [chunks |-> <<>>, currentBufferSize |-> this.currentBufferSize]

clear(this) == [chunks |-> <<>>, currentBufferSize |-> 0]

getAndClearChunks_keep(this) == [this |-> this, ret |-> this.chunks]

getAndClearChunks(this) ==
    LET chunks == this.chunks
    IN  [this |-> clear(this), ret |-> chunks]

getBufferSize(this) == this.currentBufferSize

getChunkCount(this) == Len(this.chunks)

-----------------------------------------------------------------------------
(* AudioProcessor.mergeChunks, on chunks given as byte sequences *)

\* chunks.reduce((sum, chunk) => sum + chunk.byteLength, 0)
RECURSIVE TotalLength(_)
TotalLength(chunks) ==
    IF chunks = <<>> THEN 0
    ELSE TotalLength(SubSeq(chunks, 1, Len(chunks) - 1))
         + Len(chunks[Len(chunks)])

\* new Uint8Array(length): zero-filled
NewUint8Array(length) == [k \in 1..length |-> 0]

\* target.set(source, offset), offset counted from 0
Uint8ArraySet(target, source, offset) ==
    [k \in 1..Len(target) |->
        IF k > offset /\ k <= offset + Len(source)
        THEN source[k - offset]
        ELSE target[k]]

RECURSIVE MergeLoop_noAdvance(_, _, _, _)
MergeLoop_noAdvance(chunks, i, offset, merged) ==
    IF i > Len(chunks) THEN merged
    ELSE MergeLoop_noAdvance(chunks, i + 1, offset,
                             Uint8ArraySet(merged, chunks[i], offset))

\* for (const chunk of chunks) { merged.set(chunk, offset); offset += ... }
RECURSIVE MergeLoop(_, _, _, _)
MergeLoop(chunks, i, offset, merged) ==
    IF i > Len(chunks) THEN merged
    ELSE MergeLoop(chunks, i + 1, offset + Len(chunks[i]),
                   Uint8ArraySet(merged, chunks[i], offset))

mergeChunks(chunks) ==
    LET totalLength == TotalLength(chunks)
        merged == NewUint8Array(totalLength)
    IN  MergeLoop(chunks, 1, 0, merged)

-----------------------------------------------------------------------------
(* Calls on a stand-alone AudioProcessor *)

\* op: the method called; arg: its argument; pre: the processor when it was
\* called; ret: what it returned; prev: op and ret of the call before it
NoCall == [op |-> "none", arg |-> "none", pre |-> NewAudioProcessor,
           ret |-> "none", prev |-> [op |-> "none", ret |-> "none"]]

Prev == [op |-> call.op, ret |-> call.ret]

\* the server at start-up, with GEMINI_API_KEY unset
ServerIdle ==
    /\ apiKey = FALSE
    /\ sessionProcessors = <<>>
    /\ sessionTranscripts = <<>>
    /\ rooms = <<>>
    /\ dbSessions = <<>>
    /\ dbTranscripts = <<>>
    /\ dbSummaries = <<>>
    /\ handlers = <<>>
    /\ nEvents = 0
    /\ received = <<>>
    /\ emits = <<>>
    /\ finished = <<>>
    /\ cleaned = {}
    /\ summaryCalls = <<>>

NotReturned == [returned |-> FALSE, value |-> <<>>]

\* no transcribeAudioChunk call is made on its own
NoTranscribeCall == [timestamp |-> 0, gemini |-> [kind |-> "none"]]

InitBuffer ==
    /\ processor = NewAudioProcessor
    /\ call = NoCall
    /\ nCalls = 0
    /\ mergeIn = <<>>
    /\ mergeOut = NotReturned
    /\ flattenIn = <<>>
    /\ flattenOut = NotReturned
    /\ transcribeIn = NoTranscribeCall
    /\ transcribeOut = NotReturned
    /\ ServerIdle

AddChunkCall ==
    /\ nCalls < MaxCalls
    /\ \E size \in ChunkSizes :
          LET chunk == [id |-> nCalls + 1, byteLength |-> size]
              r == addChunk(processor, chunk)
          IN  /\ processor' = r.this
              /\ call' = [op |-> "addChunk", arg |-> chunk,
                          pre |-> processor, ret |-> r.ret, prev |-> Prev]
    /\ nCalls' = nCalls + 1
    /\ UNCHANGED <<mergeVars, flattenVars, transcribeVars, serverVars>>

GetAndClearChunksCall ==
    /\ nCalls < MaxCalls
    /\ LET r == getAndClearChunks(processor)
       IN  /\ processor' = r.this
           /\ call' = [op |-> "getAndClearChunks", arg |-> "none",
                       pre |-> processor, ret |-> r.ret, prev |-> Prev]
    /\ nCalls' = nCalls + 1
    /\ UNCHANGED <<mergeVars, flattenVars, transcribeVars, serverVars>>

ClearCall ==
    /\ nCalls < MaxCalls
    /\ processor' = clear(processor)
    /\ call' = [op |-> "clear", arg |-> "none", pre |-> processor,
                ret |-> "none", prev |-> Prev]
    /\ nCalls' = nCalls + 1
    /\ UNCHANGED <<mergeVars, flattenVars, transcribeVars, serverVars>>

NextBuffer == AddChunkCall \/ GetAndClearChunksCall \/ ClearCall

SpecBuffer == InitBuffer /\ [][NextBuffer]_vars

-----------------------------------------------------------------------------
(* Calls of mergeChunks *)

MergeInputs == BoundedSeq(BoundedSeq(Bytes, MaxChunkBytes), MaxMergeChunks)

InitMerge ==
    /\ processor = NewAudioProcessor
    /\ call = NoCall
    /\ nCalls = 0
    /\ mergeIn \in MergeInputs
    /\ mergeOut = NotReturned
    /\ flattenIn = <<>>
    /\ flattenOut = NotReturned
    /\ transcribeIn = NoTranscribeCall
    /\ transcribeOut = NotReturned
    /\ ServerIdle

MergeChunksCall ==
    /\ ~mergeOut.returned
    /\ mergeOut' = [returned |-> TRUE, value |-> mergeChunks(mergeIn)]
    /\ UNCHANGED <<mergeIn, bufVars, flattenVars, transcribeVars, serverVars>>

NextMerge == MergeChunksCall

SpecMerge == InitMerge /\ [][NextMerge]_vars

-----------------------------------------------------------------------------
(* Values, strings and maps *)

\* an optional value (a field that may be undefined): <<>> or <<v>>
None == <<>>
Some(v) == <<v>>

\* JavaScript truthiness of an optional string / an optional number
TruthyString(opt) == opt # None /\ opt[1] # ""
TruthyNumber(opt) == opt # None /\ opt[1] # 0

MapHas(m, k) == k \in DOMAIN m
MapSet(m, k, v) == [x \in DOMAIN m \cup {k} |-> IF x = k THEN v ELSE m[x]]
MapDelete(m, k) == [x \in DOMAIN m \ {k} |-> m[x]]

\* String.prototype.includes
Includes(str, sub) ==
    \E i \in 1..(Len(str) - Len(sub) + 1) :
        SubSeq(str, i, i + Len(sub) - 1) = sub

IsSpace(c) == c \in {" ", "\n", "\t"}
IsDigit(c) == c \in {"0", "1", "2", "3", "4", "5", "6", "7", "8", "9"}

RECURSIVE TrimStart(_)
TrimStart(str) ==
    IF Len(str) > 0 /\ IsSpace(SubSeq(str, 1, 1))
    THEN TrimStart(SubSeq(str, 2, Len(str)))
    ELSE str

RECURSIVE TrimEnd(_)
TrimEnd(str) ==
    IF Len(str) > 0 /\ IsSpace(SubSeq(str, Len(str), Len(str)))
    THEN TrimEnd(SubSeq(str, 1, Len(str) - 1))
    ELSE str

\* String.prototype.trim
Trim(str) == TrimEnd(TrimStart(str))

\* Array.prototype.join
RECURSIVE Join(_, _)
Join(strs, sep) ==
    IF Len(strs) = 0 THEN ""
    ELSE IF Len(strs) = 1 THEN strs[1]
    ELSE Join(SubSeq(strs, 1, Len(strs) - 1), sep) \o sep \o strs[Len(strs)]

-----------------------------------------------------------------------------
(* src/lib/gemini.ts: the transcription and summarization collaborators *)

\* the length of the run of digits of text that starts at position i
RECURSIVE DigitRun(_, _)
DigitRun(text, i) ==
    IF i <= Len(text) /\ IsDigit(SubSeq(text, i, i))
    THEN 1 + DigitRun(text, i + 1)
    ELSE 0

\* text.match(/^(Speaker \d+):/)
extractSpeaker(text) ==
    LET d == DigitRun(text, 9)
    IN  IF /\ Len(text) >= 9 + d
           /\ SubSeq(text, 1, 8) = "Speaker "
           /\ d >= 1
           /\ SubSeq(text, 9 + d, 9 + d) = ":"
        THEN Some(SubSeq(text, 1, 8 + d))
        ELSE None

\* without GEMINI_API_KEY the API is not called
NoGeminiCall == [kind |-> "none"]

\* What model.generateContent does for an audio chunk: it answers with a
\* text, or it throws an error with a message.
GeminiTranscriptions ==
    { [kind |-> "text", text |-> "Speaker 1: hello "],
      [kind |-> "text", text |-> "world"],
      [kind |-> "error", message |-> "quota exceeded"] }

MockTranscriptionText(timestamp) ==
    "[Mock transcription at " \o ToString(timestamp \div 1000)
    \o "s - Add GEMINI_API_KEY to .env for real transcription]"

TranscriptionErrorText(message) ==
    "[Transcription error: "
    \o (IF message # "" THEN message ELSE "Unknown error")
    \o " - Gemini API may not support audio transcription. Consider using"
    \o " Google Cloud Speech-to-Text or OpenAI Whisper API]"

\* as if the fragment carried the seconds shown in the mock text
transcribeAudioChunk_seconds(timestamp, gemini) ==
    IF ~apiKey
    THEN [timestamp |-> timestamp \div 1000,
          text |-> MockTranscriptionText(timestamp),
          speaker |-> None]
    ELSE IF gemini.kind = "text"
    THEN [timestamp |-> timestamp,
          text |-> Trim(gemini.text),
          speaker |-> extractSpeaker(gemini.text)]
    ELSE [timestamp |-> timestamp,
          text |-> TranscriptionErrorText(gemini.message),
          speaker |-> None]

\* the TranscriptChunk the promise resolves to; gemini is what the API did
transcribeAudioChunk(timestamp, gemini) ==
    IF ~apiKey
    THEN [timestamp |-> timestamp,
          text |-> MockTranscriptionText(timestamp),
          speaker |-> None]
    ELSE IF gemini.kind = "text"
    THEN [timestamp |-> timestamp,
          text |-> Trim(gemini.text),
          speaker |-> extractSpeaker(gemini.text)]
    ELSE [timestamp |-> timestamp,
          text |-> TranscriptionErrorText(gemini.message),
          speaker |-> None]

\* the outcomes the API can have for a call, given the configuration
TranscriptionOutcomes ==
    IF apiKey THEN GeminiTranscriptions ELSE {NoGeminiCall}

\* What model.generateContent does for a summary prompt: an answer holding
\* a JSON object, or a failure (the call throws, or no JSON is found).
GeminiSummaries ==
    { [kind |-> "json", content |-> "overview"],
      [kind |-> "failure"] }

\* [ok, summary]: ok is FALSE when generateMeetingSummary throws
generateMeetingSummary(transcript, gemini) ==
    IF ~apiKey
    THEN [ok |-> TRUE,
          summary |->
            [content |->
               "Mock summary - Add GEMINI_API_KEY to .env for real AI summaries",
             keyPoints |-> <<"Mock key point 1", "Mock key point 2">>,
             actionItems |-> <<"Mock action item 1">>,
             decisions |-> <<"Mock decision 1">>]]
    ELSE IF gemini.kind = "json"
    THEN [ok |-> TRUE,
          summary |->
            [content |-> IF gemini.content # "" THEN gemini.content
                         ELSE "No summary available",
             keyPoints |-> <<>>, actionItems |-> <<>>, decisions |-> <<>>]]
    ELSE [ok |-> FALSE, summary |-> None]

SummaryOutcomes ==
    IF apiKey THEN GeminiSummaries ELSE {NoGeminiCall}

-----------------------------------------------------------------------------
(* src/server/index.ts: the socket server *)

Connections == {"c1", "c2"}

\* a session id no prisma.session.create has returned
UnknownSession == 0

SessionStatus ==
    {"IDLE", "RECORDING", "PAUSED", "PROCESSING", "COMPLETED", "ERROR"}

\* what the clients send
ServerChunkSizes == {6 * MiB}
Timestamps == {1500, 2500}
ClientTranscripts == {None, Some("client words")}
Durations == {None, Some(0), Some(42)}

KnownSessions == DOMAIN dbSessions

\* the session ids a client can name: those a session-created event has
\* carried (the handler joins the room where it emits the event), and one
\* that names no session
NameableSessions == DOMAIN rooms \cup {UnknownSession}

\* the connections in the room of a session id
Room(sessionId) == IF MapHas(rooms, sessionId) THEN rooms[sessionId] ELSE {}

\* socket.emit(event, data), by handler h
SocketEmit(h, event, data) ==
    [event |-> event, to |-> {handlers[h].conn}, room |-> None,
     data |-> data, by |-> h]

RoomEmit_toSender(h, sessionId, event, data) ==
    [event |-> event, to |-> {handlers[h].conn}, room |-> Some(sessionId),
     data |-> data, by |-> h]

\* io.to(sessionId).emit(event, data), by handler h
RoomEmit(h, sessionId, event, data) ==
    [event |-> event, to |-> Room(sessionId), room |-> Some(sessionId),
     data |-> data, by |-> h]

ErrorEvent_broadcast(h, message) ==
    RoomEmit(h, handlers[h].sessionId, "error", [message |-> message])

ErrorEvent(h, message) == SocketEmit(h, "error", [message |-> message])

StatusUpdate(h, sessionId, status) ==
    RoomEmit(h, sessionId, "status-update",
             [sessionId |-> sessionId, status |-> status])

RenderChunk_noSeparator(c) ==
    (IF TruthyString(c.speaker) THEN c.speaker[1] ELSE "") \o c.text

\* chunks.map((c) => `${c.speaker ? c.speaker + ": " : ""}${c.text}`)
RenderChunk(c) ==
    (IF TruthyString(c.speaker) THEN c.speaker[1] \o ": " ELSE "") \o c.text

\* ... .join("\n")
Flatten(chunks) ==
    Join([i \in 1..Len(chunks) |-> RenderChunk(chunks[i])], "\n")

FullTranscript_mockOnly(chunks, clientTranscript) ==
    LET flattened == Flatten(chunks)
    IN  IF /\ TruthyString(clientTranscript)
           /\ Includes(flattened, "Mock transcription")
        THEN clientTranscript[1]
        ELSE flattened

FullTranscript_always(chunks, clientTranscript) ==
    LET flattened == Flatten(chunks)
    IN  IF TruthyString(clientTranscript)
        THEN clientTranscript[1]
        ELSE flattened

\* the transcript the stop-recording handler saves
FullTranscript(chunks, clientTranscript) ==
    LET flattened == Flatten(chunks)
    IN  IF /\ TruthyString(clientTranscript)
           /\ (flattened = "" \/ Includes(flattened, "Mock transcription"))
        THEN clientTranscript[1]
        ELSE flattened

TranscriptContent_asIs(fullTranscript) == fullTranscript

\* fullTranscript || "No transcript available"
TranscriptContent(fullTranscript) ==
    IF fullTranscript # "" THEN fullTranscript ELSE "No transcript available"

\* `/api/sessions/${sessionId}/download`
DownloadUrl(sessionId) ==
    "/api/sessions/" \o ToString(sessionId) \o "/download"

InitServer ==
    /\ apiKey \in BOOLEAN
    /\ sessionProcessors = <<>>
    /\ sessionTranscripts = <<>>
    /\ rooms = <<>>
    /\ dbSessions = <<>>
    /\ dbTranscripts = <<>>
    /\ dbSummaries = <<>>
    /\ handlers = <<>>
    /\ nEvents = 0
    /\ received = <<>>
    /\ emits = <<>>
    /\ finished = None
    /\ cleaned = {}
    /\ summaryCalls = <<>>

Init ==
    /\ processor = NewAudioProcessor
    /\ call = NoCall
    /\ nCalls = 0
    /\ mergeIn = <<>>
    /\ mergeOut = NotReturned
    /\ flattenIn = <<>>
    /\ flattenOut = NotReturned
    /\ transcribeIn = NoTranscribeCall
    /\ transcribeOut = NotReturned
    /\ InitServer

\* A handler invocation is named by the arrival number of its event. It runs
\* from the arrival to its first await; each await of a persistence call is
\* two steps, the call taking effect and the handler going on after it, or
\* one step when the call rejects and the handler goes on in its catch block.
\* Where the handler does nothing after an await but make the next call, the
\* two are one step.
H == 1..MaxEvents

At(h, pc) == h \in DOMAIN handlers /\ handlers[h].pc = pc

\* found: whether sessionProcessors had the session when the event arrived;
\* logged: the messages the handler has passed to console.error
NewHandler(event, conn, sessionId, pc, data) ==
    [event |-> event, conn |-> conn, sessionId |-> sessionId, pc |-> pc,
     data |-> data, found |-> MapHas(sessionProcessors, sessionId),
     logged |-> {}]

\* an event arrives and its handler runs to its first await
Arrives(handler) ==
    /\ nEvents < MaxEvents
    /\ nEvents' = nEvents + 1
    /\ handlers' = MapSet(handlers, nEvents + 1, handler)
    /\ received' = IF MapHas(received, handler.sessionId)
                   THEN [received EXCEPT ![handler.sessionId] = @ + 1]
                   ELSE received
    /\ finished' = None
    /\ UNCHANGED summaryCalls

\* handler h goes to its next await
Goto(h, pc) ==
    /\ handlers' = [handlers EXCEPT ![h].pc = pc]
    /\ finished' = None
    /\ UNCHANGED <<nEvents, received, summaryCalls>>

\* handler h goes to its next await through a catch block that logs
GotoLogging(h, pc, message) ==
    /\ handlers' = [handlers EXCEPT ![h].pc = pc,
                                    ![h].logged = @ \cup {message}]
    /\ finished' = None
    /\ UNCHANGED <<nEvents, received, summaryCalls>>

\* handler h returns, having logged the messages logs in its last step;
\* outcome is "error" when it emitted an error event
Finish(h, outcome, logs) ==
    /\ handlers' = MapDelete(handlers, h)
    /\ finished' = Some([id |-> h, event |-> handlers[h].event,
                         conn |-> handlers[h].conn,
                         sessionId |-> handlers[h].sessionId,
                         data |-> handlers[h].data,
                         found |-> handlers[h].found,
                         logged |-> handlers[h].logged \cup logs,
                         outcome |-> outcome])
    /\ UNCHANGED <<nEvents, received, summaryCalls>>

(* start-recording *)

\* the event arrives: prisma.session.create is called
StartRecording(conn) ==
    /\ Arrives(NewHandler("start-recording", conn, UnknownSession,
                          "session.create", [audioSource |-> "microphone"]))
    /\ emits' = <<>>
    /\ UNCHANGED <<registryVars, rooms, dbVars, restVars>>

\* prisma.session.create takes effect; the record gets a fresh id
SessionCreate(h) ==
    /\ At(h, "session.create")
    /\ Cardinality(KnownSessions) < MaxSessions
    /\ LET id == Cardinality(KnownSessions) + 1
       IN  /\ dbSessions' = MapSet(dbSessions, id,
                                   [status |-> "RECORDING", duration |-> 0])
           /\ handlers' = [handlers EXCEPT ![h].pc = "session.created",
                                           ![h].sessionId = id]
           /\ received' = MapSet(received, id, 0)
           /\ summaryCalls' = MapSet(summaryCalls, id, 0)
    /\ emits' = <<>>
    /\ finished' = None
    /\ UNCHANGED <<nEvents, registryVars, rooms, dbTranscripts, dbSummaries,
                   restVars>>

\* as if the handler did not call socket.join
StartRecordingCreated_noJoin(h) ==
    /\ At(h, "session.created")
    /\ LET id == handlers[h].sessionId
       IN  /\ sessionProcessors' = MapSet(sessionProcessors, id,
                                          NewAudioProcessor)
           /\ sessionTranscripts' = MapSet(sessionTranscripts, id, <<>>)
           /\ emits' = <<SocketEmit(h, "session-created",
                                    [sessionId |-> id])>>
    /\ Finish(h, "ok", {})
    /\ UNCHANGED <<cleaned, rooms, dbVars, restVars>>

\* the handler goes on after the await
StartRecordingCreated(h) ==
    /\ At(h, "session.created")
    /\ LET id == handlers[h].sessionId
       IN  /\ sessionProcessors' = MapSet(sessionProcessors, id,
                                          NewAudioProcessor)
           /\ sessionTranscripts' = MapSet(sessionTranscripts, id, <<>>)
           /\ rooms' = MapSet(rooms, id, Room(id) \cup {handlers[h].conn})
           /\ emits' = <<SocketEmit(h, "session-created",
                                    [sessionId |-> id])>>
    /\ Finish(h, "ok", {})
    /\ UNCHANGED <<cleaned, dbVars, restVars>>

StartRecordingFailed_silent(h) ==
    /\ At(h, "session.create")
    /\ emits' = <<>>
    /\ Finish(h, "error", {"Error starting recording:"})
    /\ UNCHANGED <<registryVars, rooms, dbVars, restVars>>

\* prisma.session.create rejects: the catch block
StartRecordingFailed(h) ==
    /\ At(h, "session.create")
    /\ emits' = <<ErrorEvent(h, "Failed to start recording")>>
    /\ Finish(h, "error", {"Error starting recording:"})
    /\ UNCHANGED <<registryVars, rooms, dbVars, restVars>>

(* audio-chunk *)

\* the event arrives at a session that has a processor: the chunk is
\* buffered and transcribeAudioChunk is called
AudioChunk(conn, sessionId, size, timestamp) ==
    /\ MapHas(sessionProcessors, sessionId)
    /\ LET chunk == [id |-> nEvents + 1, byteLength |-> size]
       IN  /\ sessionProcessors' =
                  [sessionProcessors EXCEPT
                      ![sessionId] = addChunk(@, chunk).this]
           /\ Arrives(NewHandler("audio-chunk", conn, sessionId,
                                 "transcribe",
                                 [chunk |-> chunk, timestamp |-> timestamp]))
    /\ emits' = <<>>
    /\ UNCHANGED <<sessionTranscripts, cleaned, rooms, dbVars, restVars>>

\* the event arrives at a session id that has no processor
AudioChunkNoSession(conn, sessionId, size, timestamp) ==
    /\ ~MapHas(sessionProcessors, sessionId)
    /\ nEvents < MaxEvents
    /\ nEvents' = nEvents + 1
    /\ received' = IF MapHas(received, sessionId)
                   THEN [received EXCEPT ![sessionId] = @ + 1]
                   ELSE received
    /\ emits' = <<[event |-> "error", to |-> {conn}, room |-> None,
                   data |-> [message |-> "Session not found"],
                   by |-> nEvents + 1]>>
    /\ finished' = Some([id |-> nEvents + 1, event |-> "audio-chunk",
                         conn |-> conn, sessionId |-> sessionId,
                         data |-> [chunk |-> [id |-> nEvents + 1,
                                              byteLength |-> size],
                                   timestamp |-> timestamp],
                         found |-> FALSE, logged |-> {},
                         outcome |-> "error"])
    /\ UNCHANGED summaryCalls
    /\ UNCHANGED <<handlers, registryVars, rooms, dbVars, restVars>>

\* as if the handler told the sender of a chunk that got a placeholder
AudioChunkTranscribed_reportsError(h, gemini) ==
    /\ At(h, "transcribe")
    /\ LET sessionId == handlers[h].sessionId
           transcriptChunk ==
               transcribeAudioChunk(handlers[h].data.timestamp, gemini)
           chunks == IF MapHas(sessionTranscripts, sessionId)
                     THEN sessionTranscripts[sessionId]
                     ELSE <<>>
           update == RoomEmit(h, sessionId, "transcription-update",
                              [sessionId |-> sessionId,
                               chunk |-> transcriptChunk])
       IN  /\ sessionTranscripts' =
                  MapSet(sessionTranscripts, sessionId,
                         Append(chunks, transcriptChunk))
           /\ emits' = IF gemini.kind = "error"
                       THEN <<update,
                              ErrorEvent(h, "Failed to transcribe chunk")>>
                       ELSE <<update>>
    /\ Goto(h, "duration.update")
    /\ UNCHANGED <<sessionProcessors, cleaned, rooms, dbVars, restVars>>

\* as if the handler stored sessionTranscripts.set(sessionId,
\* [transcriptChunk])
AudioChunkTranscribed_overwrite(h, gemini) ==
    /\ At(h, "transcribe")
    /\ LET sessionId == handlers[h].sessionId
           transcriptChunk ==
               transcribeAudioChunk(handlers[h].data.timestamp, gemini)
       IN  /\ sessionTranscripts' =
                  MapSet(sessionTranscripts, sessionId, <<transcriptChunk>>)
           /\ emits' = <<RoomEmit(h, sessionId, "transcription-update",
                                  [sessionId |-> sessionId,
                                   chunk |-> transcriptChunk])>>
    /\ Goto(h, "duration.update")
    /\ UNCHANGED <<sessionProcessors, cleaned, rooms, dbVars, restVars>>

\* chunks with the fragment put where its timestamp places it
RECURSIVE InsertByTimestamp(_, _)
InsertByTimestamp(chunks, transcriptChunk) ==
    IF chunks = <<>> THEN <<transcriptChunk>>
    ELSE IF chunks[Len(chunks)].timestamp <= transcriptChunk.timestamp
    THEN Append(chunks, transcriptChunk)
    ELSE Append(InsertByTimestamp(SubSeq(chunks, 1, Len(chunks) - 1),
                                  transcriptChunk),
                chunks[Len(chunks)])

\* as if the handler kept the accumulator in the order of the timestamps
AudioChunkTranscribed_byTimestamp(h, gemini) ==
    /\ At(h, "transcribe")
    /\ LET sessionId == handlers[h].sessionId
           transcriptChunk ==
               transcribeAudioChunk(handlers[h].data.timestamp, gemini)
           chunks == IF MapHas(sessionTranscripts, sessionId)
                     THEN sessionTranscripts[sessionId]
                     ELSE <<>>
       IN  /\ sessionTranscripts' =
                  MapSet(sessionTranscripts, sessionId,
                         InsertByTimestamp(chunks, transcriptChunk))
           /\ emits' = <<RoomEmit(h, sessionId, "transcription-update",
                                  [sessionId |-> sessionId,
                                   chunk |-> transcriptChunk])>>
    /\ Goto(h, "duration.update")
    /\ UNCHANGED <<sessionProcessors, cleaned, rooms, dbVars, restVars>>

\* as if the handler kept a fragment of a failed transcription to itself
AudioChunkTranscribed_quiet(h, gemini) ==
    /\ At(h, "transcribe")
    /\ LET sessionId == handlers[h].sessionId
           transcriptChunk ==
               transcribeAudioChunk(handlers[h].data.timestamp, gemini)
           chunks == IF MapHas(sessionTranscripts, sessionId)
                     THEN sessionTranscripts[sessionId]
                     ELSE <<>>
       IN  /\ sessionTranscripts' =
                  MapSet(sessionTranscripts, sessionId,
                         Append(chunks, transcriptChunk))
           /\ emits' = IF gemini.kind = "error"
                       THEN <<>>
                       ELSE <<RoomEmit(h, sessionId, "transcription-update",
                                       [sessionId |-> sessionId,
                                        chunk |-> transcriptChunk])>>
    /\ Goto(h, "duration.update")
    /\ UNCHANGED <<sessionProcessors, cleaned, rooms, dbVars, restVars>>

\* transcribeAudioChunk resolves: the fragment is stored and broadcast, and
\* prisma.session.update is called with the duration
AudioChunkTranscribed(h, gemini) ==
    /\ At(h, "transcribe")
    /\ LET sessionId == handlers[h].sessionId
           transcriptChunk ==
               transcribeAudioChunk(handlers[h].data.timestamp, gemini)
           chunks == IF MapHas(sessionTranscripts, sessionId)
                     THEN sessionTranscripts[sessionId]
                     ELSE <<>>
       IN  /\ sessionTranscripts' =
                  MapSet(sessionTranscripts, sessionId,
                         Append(chunks, transcriptChunk))
           /\ emits' = <<RoomEmit(h, sessionId, "transcription-update",
                                  [sessionId |-> sessionId,
                                   chunk |-> transcriptChunk])>>
    /\ Goto(h, "duration.update")
    /\ UNCHANGED <<sessionProcessors, cleaned, rooms, dbVars, restVars>>

\* the duration update takes effect (the handler then returns), or it
\* rejects (the inner catch block logs, and the handler returns)
AudioChunkDuration(h, ok) ==
    /\ At(h, "duration.update")
    /\ LET sessionId == handlers[h].sessionId
       IN  IF ok
           THEN /\ MapHas(dbSessions, sessionId)
                /\ dbSessions' =
                      [dbSessions EXCEPT ![sessionId].duration =
                          handlers[h].data.timestamp \div 1000]
           ELSE UNCHANGED dbSessions
    /\ Finish(h, "ok", IF ok THEN {} ELSE {"Error transcribing chunk:"})
    /\ emits' = <<>>
    /\ UNCHANGED <<registryVars, rooms, dbTranscripts, dbSummaries,
                   restVars>>

(* pause-recording and resume-recording *)

\* as if a pause flushed the accumulator of the session
PauseRecording_flushes(conn, sessionId) ==
    /\ Arrives(NewHandler("pause-recording", conn, sessionId,
                          "status.update", [status |-> "PAUSED"]))
    /\ emits' = <<>>
    /\ sessionTranscripts' =
           IF MapHas(sessionTranscripts, sessionId)
           THEN [sessionTranscripts EXCEPT ![sessionId] = <<>>]
           ELSE sessionTranscripts
    /\ UNCHANGED <<sessionProcessors, cleaned, rooms, dbVars, restVars>>

\* the event arrives: prisma.session.update is called with the status
PauseRecording(conn, sessionId) ==
    /\ Arrives(NewHandler("pause-recording", conn, sessionId,
                          "status.update", [status |-> "PAUSED"]))
    /\ emits' = <<>>
    /\ UNCHANGED <<registryVars, rooms, dbVars, restVars>>

ResumeRecording(conn, sessionId) ==
    /\ Arrives(NewHandler("resume-recording", conn, sessionId,
                          "status.update", [status |-> "RECORDING"]))
    /\ emits' = <<>>
    /\ UNCHANGED <<registryVars, rooms, dbVars, restVars>>

StatusWritten_unknown(session, status) ==
    [session EXCEPT !.status = IF status = "ERROR" THEN "FAILED" ELSE status]

\* the record after prisma.session.update({ data: { status } })
StatusWritten(session, status) == [session EXCEPT !.status = status]

StatusUpdateDone_reset(h) ==
    /\ At(h, "status.update")
    /\ MapHas(dbSessions, handlers[h].sessionId)
    /\ dbSessions' = [dbSessions EXCEPT ![handlers[h].sessionId] =
                         StatusWritten(@, handlers[h].data.status)]
    /\ sessionTranscripts' =
           IF MapHas(sessionTranscripts, handlers[h].sessionId)
           THEN [sessionTranscripts EXCEPT ![handlers[h].sessionId] = <<>>]
           ELSE sessionTranscripts
    /\ Goto(h, "status.updated")
    /\ emits' = <<>>
    /\ UNCHANGED <<sessionProcessors, cleaned, rooms, dbTranscripts,
                   dbSummaries, restVars>>

\* the update of a pause or a resume takes effect
StatusUpdateDone(h) ==
    /\ At(h, "status.update")
    /\ MapHas(dbSessions, handlers[h].sessionId)
    /\ dbSessions' = [dbSessions EXCEPT ![handlers[h].sessionId] =
                         StatusWritten(@, handlers[h].data.status)]
    /\ Goto(h, "status.updated")
    /\ emits' = <<>>
    /\ UNCHANGED <<registryVars, rooms, dbTranscripts, dbSummaries,
                   restVars>>

\* the handler goes on after the await
StatusUpdateEmitted(h) ==
    /\ At(h, "status.updated")
    /\ emits' = <<StatusUpdate(h, handlers[h].sessionId,
                               handlers[h].data.status)>>
    /\ Finish(h, "ok", {})
    /\ UNCHANGED <<registryVars, rooms, dbVars, restVars>>

\* the update rejects: the catch block
StatusUpdateFailed(h) ==
    /\ At(h, "status.update")
    /\ emits' = <<ErrorEvent(h,
                     IF handlers[h].event = "pause-recording"
                     THEN "Failed to pause recording"
                     ELSE "Failed to resume recording")>>
    /\ Finish(h, "error",
              {IF handlers[h].event = "pause-recording"
               THEN "Error pausing recording:"
               ELSE "Error resuming recording:"})
    /\ UNCHANGED <<registryVars, rooms, dbVars, restVars>>

(* stop-recording *)

\* the event arrives: prisma.session.update is called with PROCESSING
StopRecording(conn, sessionId, clientTranscript, duration) ==
    /\ Arrives(NewHandler("stop-recording", conn, sessionId,
                          "processing.update",
                          [clientTranscript |-> clientTranscript,
                           duration |-> duration,
                           chunks |-> <<>>, fullTranscript |-> "",
                           summary |-> None]))
    /\ emits' = <<>>
    /\ UNCHANGED <<registryVars, rooms, dbVars, restVars>>

StopProcessing_lenient(h) ==
    /\ At(h, "processing.update")
    /\ dbSessions' = IF MapHas(dbSessions, handlers[h].sessionId)
                     THEN [dbSessions EXCEPT ![handlers[h].sessionId] =
                              StatusWritten(@, "PROCESSING")]
                     ELSE dbSessions
    /\ Goto(h, "processing.updated")
    /\ emits' = <<>>
    /\ UNCHANGED <<registryVars, rooms, dbTranscripts, dbSummaries,
                   restVars>>

\* the PROCESSING update takes effect
StopProcessing(h) ==
    /\ At(h, "processing.update")
    /\ MapHas(dbSessions, handlers[h].sessionId)
    /\ dbSessions' = [dbSessions EXCEPT ![handlers[h].sessionId] =
                         StatusWritten(@, "PROCESSING")]
    /\ Goto(h, "processing.updated")
    /\ emits' = <<>>
    /\ UNCHANGED <<registryVars, rooms, dbTranscripts, dbSummaries,
                   restVars>>

\* the handler goes on: PROCESSING is broadcast, the transcript is
\* flattened, and prisma.transcript.create is called
StopFlatten(h) ==
    /\ At(h, "processing.updated")
    /\ LET sessionId == handlers[h].sessionId
           chunks == IF MapHas(sessionTranscripts, sessionId)
                     THEN sessionTranscripts[sessionId]
                     ELSE <<>>
           fullTranscript ==
               FullTranscript(chunks, handlers[h].data.clientTranscript)
       IN  /\ emits' = <<StatusUpdate(h, sessionId, "PROCESSING")>>
           /\ handlers' = [handlers EXCEPT
                  ![h].pc = "transcript.create",
                  ![h].data.fullTranscript = fullTranscript,
                  ![h].data.chunks = chunks]
    /\ finished' = None
    /\ UNCHANGED <<nEvents, received, summaryCalls, registryVars, rooms,
                   dbVars, restVars>>

\* the schema of the database: a session has at most one Transcript row and
\* at most one Summary row (the session id is unique in both tables), so a
\* create for a session that has the row is rejected
TranscriptSessionIdUnique_many(sessionId) == TRUE

TranscriptSessionIdUnique(sessionId) == ~MapHas(dbTranscripts, sessionId)

SummarySessionIdUnique(sessionId) == ~MapHas(dbSummaries, sessionId)

\* as if the handler flattened the accumulator again when the row is written
StopTranscriptCreate_rereads(h) ==
    /\ At(h, "transcript.create")
    /\ LET sessionId == handlers[h].sessionId
           chunks == IF MapHas(sessionTranscripts, sessionId)
                     THEN sessionTranscripts[sessionId]
                     ELSE <<>>
       IN  /\ MapHas(dbSessions, sessionId)
           /\ TranscriptSessionIdUnique(sessionId)
           /\ dbTranscripts' = MapSet(dbTranscripts, sessionId,
                  [content |->
                       TranscriptContent(
                           FullTranscript(chunks,
                                          handlers[h].data.clientTranscript)),
                   chunks |-> chunks])
           /\ summaryCalls' = [summaryCalls EXCEPT ![sessionId] = @ + 1]
    /\ handlers' = [handlers EXCEPT ![h].pc = "summarize"]
    /\ emits' = <<>>
    /\ finished' = None
    /\ UNCHANGED <<nEvents, received, registryVars, rooms, dbSessions,
                   dbSummaries, restVars>>

\* prisma.transcript.create takes effect (a transcript has a session, and
\* the session has no transcript yet); generateMeetingSummary is then called
StopTranscriptCreate(h) ==
    /\ At(h, "transcript.create")
    /\ LET sessionId == handlers[h].sessionId
       IN  /\ MapHas(dbSessions, sessionId)
           /\ TranscriptSessionIdUnique(sessionId)
           /\ dbTranscripts' = MapSet(dbTranscripts, sessionId,
                  [content |->
                       TranscriptContent(handlers[h].data.fullTranscript),
                   chunks |-> handlers[h].data.chunks])
           /\ summaryCalls' = [summaryCalls EXCEPT ![sessionId] = @ + 1]
    /\ handlers' = [handlers EXCEPT ![h].pc = "summarize"]
    /\ emits' = <<>>
    /\ finished' = None
    /\ UNCHANGED <<nEvents, received, registryVars, rooms, dbSessions,
                   dbSummaries, restVars>>

\* generateMeetingSummary resolves, and prisma.summary.create is called; or
\* it rejects, the inner catch block logs, and the COMPLETED update is called
StopSummarized(h, gemini) ==
    /\ At(h, "summarize")
    /\ LET r == generateMeetingSummary(handlers[h].data.fullTranscript,
                                       gemini)
       IN  handlers' = [handlers EXCEPT
               ![h].pc = IF r.ok THEN "summary.create"
                         ELSE "completed.update",
               ![h].data.summary = IF r.ok THEN Some(r.summary) ELSE None,
               ![h].logged = IF r.ok THEN @
                             ELSE @ \cup {"Error generating summary:"}]
    /\ emits' = <<>>
    /\ finished' = None
    /\ UNCHANGED <<nEvents, received, summaryCalls, registryVars, rooms,
                   dbVars, restVars>>

StopSummaryCreate_fatal(h, ok) ==
    /\ At(h, "summary.create")
    /\ LET sessionId == handlers[h].sessionId
       IN  IF ok
           THEN /\ MapHas(dbSessions, sessionId)
                /\ SummarySessionIdUnique(sessionId)
                /\ dbSummaries' = MapSet(dbSummaries, sessionId,
                                         handlers[h].data.summary[1])
                /\ Goto(h, "completed.update")
                /\ emits' = <<>>
           ELSE /\ UNCHANGED dbSummaries
                /\ GotoLogging(h, "error.update",
                               "Error generating summary:")
                /\ emits' = <<ErrorEvent(h, "Failed to stop recording")>>
    /\ UNCHANGED <<registryVars, rooms, dbSessions, dbTranscripts,
                   restVars>>

\* prisma.summary.create takes effect (a session has one summary), or it
\* rejects and the inner catch block logs; the COMPLETED update is called
StopSummaryCreate(h, ok) ==
    /\ At(h, "summary.create")
    /\ LET sessionId == handlers[h].sessionId
       IN  IF ok
           THEN /\ MapHas(dbSessions, sessionId)
                /\ SummarySessionIdUnique(sessionId)
                /\ dbSummaries' = MapSet(dbSummaries, sessionId,
                                         handlers[h].data.summary[1])
                /\ Goto(h, "completed.update")
           ELSE /\ UNCHANGED dbSummaries
                /\ GotoLogging(h, "completed.update",
                               "Error generating summary:")
    /\ emits' = <<>>
    /\ UNCHANGED <<registryVars, rooms, dbSessions, dbTranscripts,
                   restVars>>

\* the COMPLETED update takes effect, with the duration if one was given
StopCompleted(h) ==
    /\ At(h, "completed.update")
    /\ LET sessionId == handlers[h].sessionId
           duration == handlers[h].data.duration
       IN  /\ MapHas(dbSessions, sessionId)
           /\ dbSessions' = [dbSessions EXCEPT ![sessionId] =
                  [StatusWritten(@, "COMPLETED") EXCEPT
                      !.duration = IF TruthyNumber(duration)
                                   THEN duration[1] ELSE @]]
    /\ Goto(h, "completed.updated")
    /\ emits' = <<>>
    /\ UNCHANGED <<registryVars, rooms, dbTranscripts, dbSummaries,
                   restVars>>

\* as if the clean up were sessionProcessors.clear() and
\* sessionTranscripts.clear()
StopCleanUp_clearsAll(h) ==
    /\ At(h, "completed.updated")
    /\ LET sessionId == handlers[h].sessionId
       IN  /\ sessionProcessors' = <<>>
           /\ sessionTranscripts' = <<>>
           /\ cleaned' = cleaned \cup DOMAIN sessionProcessors
                                 \cup DOMAIN sessionTranscripts
           /\ emits' = <<RoomEmit(h, sessionId, "processing-complete",
                                  [sessionId |-> sessionId,
                                   downloadUrl |-> DownloadUrl(sessionId)]),
                         StatusUpdate(h, sessionId, "COMPLETED")>>
    /\ Finish(h, "ok", {})
    /\ UNCHANGED <<rooms, dbVars, restVars>>

\* as if the status were broadcast before the download reference
StopCleanUp_statusFirst(h) ==
    /\ At(h, "completed.updated")
    /\ LET sessionId == handlers[h].sessionId
       IN  /\ sessionProcessors' = MapDelete(sessionProcessors, sessionId)
           /\ sessionTranscripts' = MapDelete(sessionTranscripts, sessionId)
           /\ cleaned' = IF \/ MapHas(sessionProcessors, sessionId)
                            \/ MapHas(sessionTranscripts, sessionId)
                         THEN cleaned \cup {sessionId}
                         ELSE cleaned
           /\ emits' = <<StatusUpdate(h, sessionId, "COMPLETED"),
                         RoomEmit(h, sessionId, "processing-complete",
                                  [sessionId |-> sessionId,
                                   downloadUrl |-> DownloadUrl(sessionId)])>>
    /\ Finish(h, "ok", {})
    /\ UNCHANGED <<rooms, dbVars, restVars>>

\* the handler goes on: clean up, and emit the completion events
StopCleanUp(h) ==
    /\ At(h, "completed.updated")
    /\ LET sessionId == handlers[h].sessionId
       IN  /\ sessionProcessors' = MapDelete(sessionProcessors, sessionId)
           /\ sessionTranscripts' = MapDelete(sessionTranscripts, sessionId)
           /\ cleaned' = IF \/ MapHas(sessionProcessors, sessionId)
                            \/ MapHas(sessionTranscripts, sessionId)
                         THEN cleaned \cup {sessionId}
                         ELSE cleaned
           /\ emits' = <<RoomEmit(h, sessionId, "processing-complete",
                                  [sessionId |-> sessionId,
                                   downloadUrl |-> DownloadUrl(sessionId)]),
                         StatusUpdate(h, sessionId, "COMPLETED")>>
    /\ Finish(h, "ok", {})
    /\ UNCHANGED <<rooms, dbVars, restVars>>

StopFailed_cleansUp(h) ==
    /\ \/ At(h, "processing.update")
       \/ At(h, "transcript.create")
       \/ At(h, "completed.update")
    /\ emits' = <<ErrorEvent(h, "Failed to stop recording")>>
    /\ GotoLogging(h, "error.update", "Error stopping recording:")
    /\ sessionProcessors' =
           MapDelete(sessionProcessors, handlers[h].sessionId)
    /\ sessionTranscripts' =
           MapDelete(sessionTranscripts, handlers[h].sessionId)
    /\ UNCHANGED <<cleaned, rooms, dbVars, restVars>>

\* a persistence call of the outer try block rejects: the catch block emits
\* the error and calls prisma.session.update with ERROR
StopFailed(h) ==
    /\ \/ At(h, "processing.update")
       \/ At(h, "transcript.create")
       \/ At(h, "completed.update")
    /\ emits' = <<ErrorEvent(h, "Failed to stop recording")>>
    /\ GotoLogging(h, "error.update", "Error stopping recording:")
    /\ UNCHANGED <<registryVars, rooms, dbVars, restVars>>

\* the ERROR update takes effect, or it rejects and is logged
StopErrorUpdate(h, ok) ==
    /\ At(h, "error.update")
    /\ LET sessionId == handlers[h].sessionId
       IN  IF ok
           THEN /\ MapHas(dbSessions, sessionId)
                /\ dbSessions' = [dbSessions EXCEPT ![sessionId] =
                                     StatusWritten(@, "ERROR")]
           ELSE UNCHANGED dbSessions
    /\ Finish(h, "error",
              IF ok THEN {} ELSE {"Error updating session status:"})
    /\ emits' = <<>>
    /\ UNCHANGED <<registryVars, rooms, dbTranscripts, dbSummaries,
                   restVars>>

(* Calls of the flattening of a stop-recording handler *)

\* the TranscriptChunk values of the calls: with and without a speaker label
FlattenChunks ==
    [timestamp : {0}, text : {"hello", "world", ""},
     speaker : {None, Some("Speaker 1"), Some("Speaker 2")}]

InitFlatten ==
    /\ processor = NewAudioProcessor
    /\ call = NoCall
    /\ nCalls = 0
    /\ mergeIn = <<>>
    /\ mergeOut = NotReturned
    /\ flattenIn \in BoundedSeq(FlattenChunks, MaxFragments)
    /\ flattenOut = NotReturned
    /\ transcribeIn = NoTranscribeCall
    /\ transcribeOut = NotReturned
    /\ ServerIdle

FlattenCall ==
    /\ ~flattenOut.returned
    /\ flattenOut' = [returned |-> TRUE, value |-> Flatten(flattenIn)]
    /\ UNCHANGED <<flattenIn, bufVars, mergeVars, transcribeVars, serverVars>>

NextFlatten == FlattenCall

SpecFlatten == InitFlatten /\ [][NextFlatten]_vars

(* Calls of transcribeAudioChunk *)

\* the timestamps of the calls
TranscribeTimestamps == {500 * k : k \in 0..MaxHalfSeconds}

\* what model.generateContent does in the calls: also an answer that is
\* empty, and an error without a message
TranscribeOutcomes ==
    GeminiTranscriptions
    \cup { [kind |-> "text", text |-> ""],
           [kind |-> "text", text |-> " Speaker 12: hi"],
           [kind |-> "error", message |-> ""] }

InitTranscribe ==
    /\ processor = NewAudioProcessor
    /\ call = NoCall
    /\ nCalls = 0
    /\ mergeIn = <<>>
    /\ mergeOut = NotReturned
    /\ flattenIn = <<>>
    /\ flattenOut = NotReturned
    /\ InitServer
    /\ transcribeIn \in
           [timestamp : TranscribeTimestamps,
            gemini : IF apiKey THEN TranscribeOutcomes ELSE {NoGeminiCall}]
    /\ transcribeOut = NotReturned

\* the promise of the call resolves
TranscribeCall ==
    /\ ~transcribeOut.returned
    /\ transcribeOut' =
           [returned |-> TRUE,
            value |-> transcribeAudioChunk(transcribeIn.timestamp,
                                           transcribeIn.gemini)]
    /\ UNCHANGED <<transcribeIn, bufVars, mergeVars, flattenVars,
                   serverVars>>

NextTranscribe == TranscribeCall

SpecTranscribe == InitTranscribe /\ [][NextTranscribe]_vars

\* the steps the handlers take after their first await: a call they await
\* returns or fails, and they go on
HandlersGoOn ==
    \/ \E h \in H : SessionCreate(h)
    \/ \E h \in H : StartRecordingCreated(h)
    \/ \E h \in H : StartRecordingFailed(h)
    \/ \E h \in H, gemini \in TranscriptionOutcomes :
          AudioChunkTranscribed(h, gemini)
    \/ \E h \in H, ok \in BOOLEAN : AudioChunkDuration(h, ok)
    \/ \E h \in H : StatusUpdateDone(h)
    \/ \E h \in H : StatusUpdateEmitted(h)
    \/ \E h \in H : StatusUpdateFailed(h)
    \/ \E h \in H : StopProcessing(h)
    \/ \E h \in H : StopFlatten(h)
    \/ \E h \in H : StopTranscriptCreate(h)
    \/ \E h \in H, gemini \in SummaryOutcomes : StopSummarized(h, gemini)
    \/ \E h \in H, ok \in BOOLEAN : StopSummaryCreate(h, ok)
    \/ \E h \in H : StopCompleted(h)
    \/ \E h \in H : StopCleanUp(h)
    \/ \E h \in H : StopFailed(h)
    \/ \E h \in H, ok \in BOOLEAN : StopErrorUpdate(h, ok)

\* the steps of the server when the clients starters send start-recording,
\* the clients conns send the other events, and the payloads of the
\* audio-chunk and stop-recording events are drawn from the given sets
ServerNext(starters, conns, sizes, timestamps, transcripts, durations) ==
    \/ \E conn \in starters : StartRecording(conn)
    \/ \E conn \in conns, sessionId \in NameableSessions,
          size \in sizes, timestamp \in timestamps :
          AudioChunk(conn, sessionId, size, timestamp)
    \/ \E conn \in conns, sessionId \in NameableSessions,
          size \in sizes, timestamp \in timestamps :
          AudioChunkNoSession(conn, sessionId, size, timestamp)
    \/ \E conn \in conns, sessionId \in NameableSessions :
          PauseRecording(conn, sessionId)
    \/ \E conn \in conns, sessionId \in NameableSessions :
          ResumeRecording(conn, sessionId)
    \/ \E conn \in conns, sessionId \in NameableSessions,
          clientTranscript \in transcripts, duration \in durations :
          StopRecording(conn, sessionId, clientTranscript, duration)
    \/ HandlersGoOn

\* one client, one payload of each kind but for the clientTranscript
Next ==
    ServerNext({"c1"}, {"c1"}, ServerChunkSizes, {1500}, ClientTranscripts,
               {None})

Spec == Init /\ [][Next]_vars

\* two clients and every payload
NextWide ==
    ServerNext(Connections, Connections, ServerChunkSizes, Timestamps,
               ClientTranscripts, Durations)

SpecWide == Init /\ [][NextWide]_vars

\* c1 records; c2, another client, sends the other events, naming the
\* sessions of c1
NextPair ==
    ServerNext({"c1"}, {"c2"}, ServerChunkSizes, {1500}, {None}, {None})

\* every call a handler awaits returns or fails in the end
SpecPair == Init /\ [][NextPair]_vars /\ WF_vars(HandlersGoOn)

(* One client that records a session, pauses it and resumes it *)

\* the buffer of a session after k audio-chunk events; their chunks are
\* numbered from below zero, those of the events to come from one
RECURSIVE Buffered(_)
Buffered(k) ==
    IF k = 0 THEN NewAudioProcessor
    ELSE addChunk(Buffered(k - 1),
                  [id |-> k - MaxFragments - 1, byteLength |-> 6 * MiB]).this

\* the fragments transcribeAudioChunk can resolve to
Fragments ==
    {transcribeAudioChunk(1500, gemini) : gemini \in TranscriptionOutcomes}

\* The server after the start-recording of c1 and some audio-chunk events
\* were handled to the end: session 1 is RECORDING and has its fragments.
\* nEvents and received count the events from here on.
InitRecording ==
    /\ processor = NewAudioProcessor
    /\ call = NoCall
    /\ nCalls = 0
    /\ mergeIn = <<>>
    /\ mergeOut = NotReturned
    /\ flattenIn = <<>>
    /\ flattenOut = NotReturned
    /\ transcribeIn = NoTranscribeCall
    /\ transcribeOut = NotReturned
    /\ apiKey \in BOOLEAN
    /\ sessionTranscripts \in
           {MapSet(<<>>, 1, chunks) :
               chunks \in BoundedSeq(Fragments, MaxFragments)}
    /\ sessionProcessors =
           MapSet(<<>>, 1, Buffered(Len(sessionTranscripts[1])))
    /\ rooms = MapSet(<<>>, 1, {"c1"})
    /\ dbSessions \in
           {MapSet(<<>>, 1, [status |-> "RECORDING", duration |-> d]) :
               d \in IF sessionTranscripts[1] = <<>> THEN {0} ELSE {0, 1}}
    /\ dbTranscripts = <<>>
    /\ dbSummaries = <<>>
    /\ handlers = <<>>
    /\ nEvents = 0
    /\ received = MapSet(<<>>, 1, 0)
    /\ emits = <<>>
    /\ finished = None
    /\ cleaned = {}
    /\ summaryCalls = MapSet(<<>>, 1, 0)

\* pauseRecording of the client: the MediaRecorder is recording, that is,
\* the client has not paused yet or its last request was a resume
ClientPauses ==
    /\ handlers = <<>>
    /\ IF finished = None THEN TRUE
       ELSE finished[1].event = "resume-recording"
    /\ PauseRecording("c1", 1)

\* resumeRecording of the client: the MediaRecorder is paused
ClientResumes ==
    /\ handlers = <<>>
    /\ IF finished = None THEN FALSE
       ELSE finished[1].event = "pause-recording"
    /\ ResumeRecording("c1", 1)

NextPauseResume ==
    \/ ClientPauses
    \/ ClientResumes
    \/ \E h \in H : StatusUpdateDone(h)
    \/ \E h \in H : StatusUpdateEmitted(h)
    \/ \E h \in H : StatusUpdateFailed(h)

SpecPauseResume == InitRecording /\ [][NextPauseResume]_vars

\* the timestamp of the chunk the client sends next: Date.now() minus the
\* start time, at a timeslice of one second, after the chunks sent before
ChunkTimestamp == 2500 + 1000 * nEvents

\* the MediaRecorder of the client delivers a chunk and the client sends it
ClientSendsChunk ==
    \E size \in ServerChunkSizes : AudioChunk("c1", 1, size, ChunkTimestamp)

NextAudio ==
    \/ ClientSendsChunk
    \/ \E h \in H, gemini \in TranscriptionOutcomes :
          AudioChunkTranscribed(h, gemini)
    \/ \E h \in H, ok \in BOOLEAN : AudioChunkDuration(h, ok)

\* the server after the start-recording of c1: session 1 is RECORDING, and
\* no chunk of it has arrived
InitStarted ==
    /\ InitRecording
    /\ sessionTranscripts[1] = <<>>

\* a session whose client sends its chunks
SpecAudio == InitStarted /\ [][NextAudio]_vars

\* the clientTranscript of a stop-recording: absent, empty, or some words
StopTranscripts == {None, Some(""), Some("client words")}

\* stopRecording of the client, called again only after the server has
\* handled the call before it
ClientStops ==
    /\ handlers = <<>>
    /\ \E clientTranscript \in StopTranscripts :
          StopRecording("c1", 1, clientTranscript, None)

NextStop ==
    \/ ClientStops
    \/ \E h \in H : StopProcessing(h)
    \/ \E h \in H : StopFlatten(h)
    \/ \E h \in H : StopTranscriptCreate(h)
    \/ \E h \in H, gemini \in SummaryOutcomes : StopSummarized(h, gemini)
    \/ \E h \in H, ok \in BOOLEAN : StopSummaryCreate(h, ok)
    \/ \E h \in H : StopCompleted(h)
    \/ \E h \in H : StopCleanUp(h)
    \/ \E h \in H : StopFailed(h)
    \/ \E h \in H, ok \in BOOLEAN : StopErrorUpdate(h, ok)

\* a recorded session that its client stops
SpecStop == InitRecording /\ [][NextStop]_vars

\* a recorded session that its client stops, where every call a handler
\* awaits returns or fails in the end
SpecStopFair == InitRecording /\ [][NextStop]_vars /\ WF_vars(HandlersGoOn)

\* stopRecording of the client with the duration its timer shows, called
\* again only after the server has handled the call before it
ClientStopsWithDuration ==
    /\ handlers = <<>>
    /\ \E duration \in Durations : StopRecording("c1", 1, None, duration)

NextStopDuration ==
    \/ ClientStopsWithDuration
    \/ \E h \in H : StopProcessing(h)
    \/ \E h \in H : StopFlatten(h)
    \/ \E h \in H : StopTranscriptCreate(h)
    \/ \E h \in H, gemini \in SummaryOutcomes : StopSummarized(h, gemini)
    \/ \E h \in H, ok \in BOOLEAN : StopSummaryCreate(h, ok)
    \/ \E h \in H : StopCompleted(h)
    \/ \E h \in H : StopCleanUp(h)
    \/ \E h \in H : StopFailed(h)
    \/ \E h \in H, ok \in BOOLEAN : StopErrorUpdate(h, ok)

\* a recorded session, its running duration written by the audio-chunk
\* handlers, that its client stops with a duration
SpecStopDuration == InitRecording /\ [][NextStopDuration]_vars

-----------------------------------------------------------------------------
(* The bounded audio buffer: C1 - C4 under SpecBuffer *)

\* C1: after every addChunk call returns, the byte total reported by
\* getBufferSize is at most the ceiling maxBufferSize (10 MiB).
C1_ByteTotalWithinCeiling ==
    call.op = "addChunk" => getBufferSize(processor) <= maxBufferSize

\* whether the addChunk call recorded in `call` met the overflow condition
LastAddOverflowed ==
    call.pre.currentBufferSize + call.arg.byteLength > maxBufferSize

\* C2: an addChunk call that triggers overflow with n chunks buffered removes
\* exactly floor(n/2) chunks, the oldest ones, keeps the rest in order and
\* appends the new chunk last; a call that triggers no overflow removes none.
C2_EvictsOldestHalf ==
    call.op = "addChunk" =>
        LET pre == call.pre.chunks
            post == processor.chunks
            n == Len(pre)
            removed == IF LastAddOverflowed THEN n \div 2 ELSE 0
        IN  /\ Len(post) = n - removed + 1
            /\ \A i \in 1..(n - removed) : post[i] = pre[removed + i]
            /\ post[Len(post)] = call.arg

C2_Witness ==
    /\ call.op = "addChunk"
    /\ LastAddOverflowed
    /\ Len(call.pre.chunks) >= 4
    /\ Len(processor.chunks) = Len(call.pre.chunks) - 2 + 1

C4_GetAndClearDrains ==
    call.op = "getAndClearChunks" =>
        /\ call.ret = call.pre.chunks
        /\ processor.chunks = <<>>
        /\ getChunkCount(processor) = 0
        /\ getBufferSize(processor) = 0
        /\ call.prev.op = "getAndClearChunks" => call.ret = <<>>

\* a call that drained two chunks or more, followed by a second call
C4_Witness ==
    /\ call.op = "getAndClearChunks"
    /\ call.prev.op = "getAndClearChunks"
    /\ Len(call.prev.ret) >= 2
    /\ call.ret = <<>>

-----------------------------------------------------------------------------
(* mergeChunks: C5 under SpecMerge *)

\* the number of bytes of chunks[1..i]
RECURSIVE BytesBefore(_, _)
BytesBefore(chunks, i) ==
    IF i = 0 THEN 0 ELSE BytesBefore(chunks, i - 1) + Len(chunks[i])

\* C5: the payload mergeChunks returns has as many bytes as its input chunks
\* together, and cut at the original boundaries it gives back the input
\* chunks, in list order; the call leaves the buffer as it was.
C5_MergeIsConcatenation ==
    mergeOut.returned =>
        LET merged == mergeOut.value
        IN  /\ Len(merged) = BytesBefore(mergeIn, Len(mergeIn))
            /\ \A i \in 1..Len(mergeIn) :
                   SubSeq(merged, BytesBefore(mergeIn, i - 1) + 1,
                          BytesBefore(mergeIn, i)) = mergeIn[i]
            /\ processor = NewAudioProcessor

C5_Witness ==
    /\ mergeOut.returned
    /\ Len(mergeIn) = 3
    /\ \A i \in 1..3 : Len(mergeIn[i]) >= 1
    /\ mergeIn[1] # mergeIn[2]
    /\ Len(mergeOut.value) >= 4

-----------------------------------------------------------------------------
(* The session lifecycle: C6 - C9 under Spec *)

\* C6: in every reachable state, also after a collaborator failed inside a
\* handler, the persisted status of every session is one of the six states
\* of SessionStatus.
C6_StatusIsDefined ==
    \A s \in DOMAIN dbSessions : dbSessions[s].status \in SessionStatus

\* a stop-recording handler has ended in its catch block, ERROR persisted
C6_Witness ==
    /\ finished # None
    /\ finished[1].event = "stop-recording"
    /\ finished[1].outcome = "error"
    /\ MapHas(dbSessions, finished[1].sessionId)
    /\ dbSessions[finished[1].sessionId].status = "ERROR"

TerminalStatus == {"COMPLETED", "ERROR"}

\* C7: once the persisted status of a session is COMPLETED or ERROR, no step
\* of a pause-recording, resume-recording, stop-recording or audio-chunk
\* handler changes it.
C7_TerminalStatusIsFinal ==
    [][\A s \in DOMAIN dbSessions :
          dbSessions[s].status \in TerminalStatus
              => dbSessions'[s].status = dbSessions[s].status]_vars

\* C8: a session id whose registry entry a completed stop removed has no
\* entry in sessionProcessors and none in sessionTranscripts ever after.
C8_NoEntryAfterCleanUp ==
    \A s \in cleaned :
        ~MapHas(sessionProcessors, s) /\ ~MapHas(sessionTranscripts, s)

\* the stop-recording handler the last step ended, which emitted no error
\* and carried no clientTranscript, when its event is the only one that named
\* the session since the session was created
StoppedRightAfterStart ==
    /\ finished # None
    /\ finished[1].event = "stop-recording"
    /\ finished[1].outcome = "ok"
    /\ finished[1].data.clientTranscript = None
    /\ received[finished[1].sessionId] = 1

\* C9: start-recording followed by stop-recording for the created session,
\* with no audio-chunk in between and no clientTranscript, ends with the
\* persisted status COMPLETED and a persisted Transcript whose content is
\* "No transcript available".
C9_EmptySessionCompletes ==
    StoppedRightAfterStart =>
        LET s == finished[1].sessionId
        IN  /\ dbSessions[s].status = "COMPLETED"
            /\ MapHas(dbTranscripts, s)
            /\ dbTranscripts[s].content = "No transcript available"

C9_Witness ==
    /\ StoppedRightAfterStart
    /\ dbSessions[finished[1].sessionId].status = "COMPLETED"
    /\ MapHas(sessionProcessors, finished[1].sessionId) = FALSE

\* the program points of a stop-recording handler whose
\* prisma.transcript.create has taken effect and who has not failed since
TranscriptCreated ==
    {"summarize", "summary.create", "completed.update", "completed.updated"}

\* C11: a stop-recording handler that found the flattened transcript empty
\* and was given a non-empty clientTranscript persists a Transcript whose
\* content is the clientTranscript, character for character.
C11_ClientTranscriptVerbatim ==
    \A h \in DOMAIN handlers :
        /\ handlers[h].event = "stop-recording"
        /\ handlers[h].pc \in TranscriptCreated
        /\ Flatten(handlers[h].data.chunks) = ""
        /\ handlers[h].data.clientTranscript # None
        /\ handlers[h].data.clientTranscript # Some("")
        => /\ MapHas(dbTranscripts, handlers[h].sessionId)
           /\ dbTranscripts[handlers[h].sessionId].content =
                  handlers[h].data.clientTranscript[1]

C11_Witness ==
    \E h \in DOMAIN handlers :
        /\ handlers[h].event = "stop-recording"
        /\ handlers[h].pc = "summarize"
        /\ handlers[h].data.chunks = <<>>
        /\ handlers[h].data.clientTranscript = Some("client words")
        /\ dbTranscripts[handlers[h].sessionId].content = "client words"

\* the last step ended a resume-recording handler that emitted no error
Resumed ==
    /\ finished # None
    /\ finished[1].event = "resume-recording"
    /\ finished[1].outcome = "ok"

-----------------------------------------------------------------------------
(* Failures inside the handlers: C14, C15, C18 - C20 under Spec *)

\* this step is one of handler h, which was running before it
Stepped(h) ==
    /\ h \in DOMAIN handlers
    /\ IF h \in DOMAIN handlers' THEN handlers'[h] # handlers[h] ELSE TRUE

\* this step takes handler h from program point from to program point to
Moved(h, from, to) ==
    /\ At(h, from)
    /\ IF h \in DOMAIN handlers' THEN handlers'[h].pc = to ELSE FALSE

\* this step is the last of handler h, which was at program point from
Returned(h, from) ==
    /\ At(h, from)
    /\ h \notin DOMAIN handlers'

\* socket.emit("error", { message }) of handler h, as the only emit of a step
OnlyError(h, message) ==
    <<[event |-> "error", to |-> {handlers[h].conn}, room |-> None,
       data |-> [message |-> message], by |-> h]>>

\* an emit that tells the room the session is complete
TellsCompletion(e) ==
    \/ e.event = "processing-complete"
    \/ e.event = "status-update" /\ e.data.status = "COMPLETED"

\* C14: a stop-recording that names a session id of no session record is
\* answered by an error event to its sender: the handler's first step emits
\* it, its second and last step emits nothing, the handler returns, nothing
\* persisted or registered changes, and no step of any handler emits
\* processing-complete or status-update(COMPLETED) for such an id.
C14_StopOfUnknownSessionFails ==
    [][/\ \A h \in DOMAIN handlers :
              /\ Stepped(h)
              /\ handlers[h].event = "stop-recording"
              /\ handlers[h].sessionId \notin KnownSessions
              => /\ \/ /\ Moved(h, "processing.update", "error.update")
                       /\ emits' = OnlyError(h, "Failed to stop recording")
                    \/ /\ Returned(h, "error.update")
                       /\ finished'[1].outcome = "error"
                       /\ emits' = <<>>
                 /\ UNCHANGED <<dbVars, registryVars, rooms>>
       /\ \A i \in DOMAIN emits' :
              TellsCompletion(emits'[i])
                  => emits'[i].data.sessionId \in DOMAIN dbSessions'
      ]_vars

\* the handler of such a stop-recording has returned through its catch
\* blocks: the error was emitted and the ERROR update failed
C14_Witness ==
    /\ finished # None
    /\ finished[1].event = "stop-recording"
    /\ finished[1].sessionId = UnknownSession
    /\ finished[1].outcome = "error"
    /\ finished[1].logged =
           {"Error stopping recording:", "Error updating session status:"}

SessionEvents ==
    {"audio-chunk", "pause-recording", "resume-recording", "stop-recording"}

\* the handler with record r got no summary, or could not persist it
SummaryFailed(r) == "Error generating summary:" \in r.logged

\* the two emits that end a stop-recording handler h
CompletionEmits(h) ==
    LET sessionId == handlers[h].sessionId
    IN  <<[event |-> "processing-complete", to |-> Room(sessionId),
           room |-> Some(sessionId),
           data |-> [sessionId |-> sessionId,
                     downloadUrl |-> DownloadUrl(sessionId)],
           by |-> h],
          [event |-> "status-update", to |-> Room(sessionId),
           room |-> Some(sessionId),
           data |-> [sessionId |-> sessionId, status |-> "COMPLETED"],
           by |-> h]>>

\* C18: when generateMeetingSummary or prisma.summary.create fails in a
\* stop-recording handler and its other persistence calls succeed, the
\* failure (the step that logs it) emits nothing, changes nothing persisted
\* or registered and sends the handler on to the COMPLETED update;
\* that update persists COMPLETED; and the handler's last step removes the
\* registry entry and emits processing-complete and status-update(COMPLETED),
\* with no Summary record of the session and no error event of the handler.
C18_SummaryFailureIsNotFatal ==
    [][\A h \in DOMAIN handlers :
          LET sessionId == handlers[h].sessionId
          IN  /\ /\ ~SummaryFailed(handlers[h])
                 /\ IF h \in DOMAIN handlers'
                    THEN SummaryFailed(handlers'[h]) ELSE FALSE
                 => /\ \/ Moved(h, "summarize", "completed.update")
                       \/ Moved(h, "summary.create", "completed.update")
                    /\ emits' = <<>>
                    /\ UNCHANGED <<dbVars, registryVars>>
              /\ /\ SummaryFailed(handlers[h])
                 /\ Moved(h, "completed.update", "completed.updated")
                 => /\ dbSessions'[sessionId].status = "COMPLETED"
                    /\ emits' = <<>>
              /\ /\ SummaryFailed(handlers[h])
                 /\ Returned(h, "completed.updated")
                 => /\ ~MapHas(sessionProcessors', sessionId)
                    /\ ~MapHas(sessionTranscripts', sessionId)
                    /\ ~MapHas(dbSummaries', sessionId)
                    /\ emits' = CompletionEmits(h)
                    /\ finished'[1].outcome = "ok"
                    /\ finished'[1].logged = {"Error generating summary:"}
      ]_vars

\* a stop-recording handler has returned after prisma.summary.create failed
C18_Witness ==
    /\ finished # None
    /\ finished[1].event = "stop-recording"
    /\ finished[1].outcome = "ok"
    /\ SummaryFailed(finished[1])
    /\ finished[1].data.summary # None
    /\ ~MapHas(dbSummaries, finished[1].sessionId)
    /\ ~MapHas(sessionProcessors, finished[1].sessionId)
    /\ dbSessions[finished[1].sessionId].status = "COMPLETED"

\* C15: when an audio-chunk, pause-recording, resume-recording or
\* stop-recording names a session id that has no entry in sessionProcessors
\* as it arrives, no step of its handler changes a registry map, a buffer,
\* an accumulator or a persisted record, or emits to a room, and the handler
\* returns having sent its sender an error event.
C15_NotFoundChangesNothing ==
    [][/\ \A h \in DOMAIN handlers :
              /\ Stepped(h)
              /\ handlers[h].event \in SessionEvents
              /\ ~handlers[h].found
              => /\ UNCHANGED <<sessionProcessors, sessionTranscripts,
                                dbVars>>
                 /\ \A i \in DOMAIN emits' : emits'[i].room = None
       /\ IF finished' = None THEN TRUE
          ELSE /\ finished'[1].event \in SessionEvents
               /\ ~finished'[1].found
               => finished'[1].outcome = "error"
      ]_vars

\* C19: when prisma.session.create fails in a start-recording handler (the
\* handler leaves its await and no session record was made), the handler
\* returns in that step, emits one event, an error to its sender, adds no
\* entry to sessionProcessors or sessionTranscripts, and joins no room.
C19_FailedStartCreatesNothing ==
    [][\A h \in DOMAIN handlers :
          /\ At(h, "session.create")
          /\ Stepped(h)
          /\ dbSessions' = dbSessions
          => /\ Returned(h, "session.create")
             /\ emits' = OnlyError(h, "Failed to start recording")
             /\ finished'[1].sessionId = UnknownSession
             /\ UNCHANGED <<sessionProcessors, sessionTranscripts, rooms,
                            dbVars>>
      ]_vars

\* a start-recording has failed after another one had made a session
C19_Witness ==
    /\ finished # None
    /\ finished[1].event = "start-recording"
    /\ finished[1].outcome = "error"
    /\ emits # <<>>
    /\ emits[1].event = "error"
    /\ DOMAIN rooms = {1}
    /\ DOMAIN sessionProcessors = {1}

\* the outer catch block of stop-recording handler h runs in this step
StopCaught(h) ==
    /\ handlers[h].event = "stop-recording"
    /\ "Error stopping recording:" \notin handlers[h].logged
    /\ IF h \in DOMAIN handlers'
       THEN "Error stopping recording:" \in handlers'[h].logged
       ELSE FALSE

\* C20: when prisma.transcript.create or the COMPLETED update fails in a
\* stop-recording handler, that step emits one event, an error to the
\* sender, and changes nothing persisted or registered; the handler then
\* makes one more persistence call, which sets the status ERROR or fails
\* without a trace but the log, and returns: it emits nothing more, so no
\* processing-complete and no status-update(COMPLETED), and it leaves the
\* session's buffer and accumulator as they are.
C20_FailedStopSetsError ==
    [][\A h \in DOMAIN handlers :
          LET sessionId == handlers[h].sessionId
          IN  /\ /\ StopCaught(h)
                 /\ At(h, "transcript.create") \/ At(h, "completed.update")
                 => /\ Moved(h, handlers[h].pc, "error.update")
                    /\ emits' = OnlyError(h, "Failed to stop recording")
                    /\ UNCHANGED <<dbVars, sessionProcessors,
                                   sessionTranscripts>>
              /\ At(h, "error.update") /\ Stepped(h)
                 => /\ Returned(h, "error.update")
                    /\ finished'[1].outcome = "error"
                    /\ emits' = <<>>
                    /\ UNCHANGED <<dbTranscripts, dbSummaries,
                                   sessionProcessors, sessionTranscripts>>
                    /\ \/ dbSessions' = dbSessions
                       \/ /\ MapHas(dbSessions, sessionId)
                          /\ dbSessions' =
                                 [dbSessions EXCEPT
                                     ![sessionId].status = "ERROR"]
      ]_vars

\* a stop-recording handler whose COMPLETED update failed has returned: the
\* status is ERROR and the registry entry of the session is still there
C20_Witness ==
    /\ finished # None
    /\ finished[1].event = "stop-recording"
    /\ finished[1].outcome = "error"
    /\ finished[1].data.summary # None
    /\ dbSessions[finished[1].sessionId].status = "ERROR"
    /\ MapHas(dbTranscripts, finished[1].sessionId)
    /\ MapHas(sessionProcessors, finished[1].sessionId)
    /\ MapHas(sessionTranscripts, finished[1].sessionId)

-----------------------------------------------------------------------------
(* Who is sent what: C13, C16 under SpecPair *)

\* the connection whose inbound event caused emit e of the last step: that
\* of the handler that emitted it, which is still running or has just ended
Sender(e) ==
    IF e.by \in DOMAIN handlers THEN handlers[e.by].conn
    ELSE finished[1].conn

\* C13: every transcription-update and every status-update is sent to all
\* the connections that are in the room of its session when it is emitted,
\* whichever connection sent the event that caused it.
C13_UpdatesReachTheRoom ==
    \A i \in DOMAIN emits :
        emits[i].event \in {"transcription-update", "status-update"}
            => /\ emits[i].room = Some(emits[i].data.sessionId)
               /\ emits[i].to = Room(emits[i].data.sessionId)

\* a status-update caused by c2 is sent to c1, who is in the room
C13_Witness ==
    /\ emits # <<>>
    /\ emits[1].event = "status-update"
    /\ Sender(emits[1]) = "c2"
    /\ emits[1].to = {"c1"}

\* C16: an error event is sent to the connection whose inbound event caused
\* it and to no other, the connections in the room of the session included.
C16_ErrorsReachTheSenderOnly ==
    \A i \in DOMAIN emits :
        emits[i].event = "error"
            => /\ emits[i].room = None
               /\ emits[i].to = {Sender(emits[i])}

\* c2 is sent the error of its stop-recording, and c1, in the room, is not
C16_Witness ==
    /\ emits # <<>>
    /\ emits[1].event = "error"
    /\ emits[1].by \in DOMAIN handlers
    /\ handlers[emits[1].by].event = "stop-recording"
    /\ Room(handlers[emits[1].by].sessionId) = {"c1"}
    /\ emits[1].to = {"c2"}

\* the program points of the first await of the handlers
FirstAwait ==
    {"session.create", "transcribe", "status.update", "processing.update"}

\* the event of handler h has arrived and the handler has emitted nothing yet
Requested(h) == h \in DOMAIN handlers /\ handlers[h].pc \in FirstAwait

\* the last step sent the sender of handler h an event that h emitted
Answered(h) ==
    \E i \in DOMAIN emits :
        emits[i].by = h /\ Sender(emits[i]) \in emits[i].to

\* C17: every inbound request is followed, once the calls its handler
\* awaits have returned or failed, by an event to its sender that the
\* request caused: session-created, transcription-update, status-update,
\* processing-complete or error.
C17_NeverSilence ==
    \A h \in H : Requested(h) ~> Answered(h)

-----------------------------------------------------------------------------
(* Flattening: C10 under SpecFlatten *)

\* the rendering of one fragment
Rendered(c) ==
    IF c.speaker = None THEN c.text ELSE c.speaker[1] \o ": " \o c.text

\* the renderings of chunks[i..], each after the first preceded by a newline
RECURSIVE RenderedFrom(_, _)
RenderedFrom(chunks, i) ==
    IF i > Len(chunks) THEN ""
    ELSE (IF i > 1 THEN "\n" ELSE "") \o Rendered(chunks[i])
         \o RenderedFrom(chunks, i + 1)

HelloWorld ==
    <<[timestamp |-> 0, text |-> "hello", speaker |-> Some("Speaker 1")],
      [timestamp |-> 0, text |-> "world", speaker |-> None]>>

\* C10: flattening renders a fragment with a speaker label as
\* "{speaker}: {text}" and one without as "{text}", and joins the fragments
\* with a newline in accumulator order; for the fragments
\* [{text: "hello", speaker: "Speaker 1"}, {text: "world"}] the result is
\* "Speaker 1: hello\nworld".
C10_FlattenRendersAndJoins ==
    flattenOut.returned =>
        /\ flattenOut.value = RenderedFrom(flattenIn, 1)
        /\ flattenIn = HelloWorld => flattenOut.value = "Speaker 1: hello\nworld"

C10_Witness ==
    /\ flattenOut.returned
    /\ flattenIn = HelloWorld
    /\ flattenOut.value = "Speaker 1: hello\nworld"

(* Stops of one session, repeated or concurrent *)

\* the program points of a stop-recording handler between the call of
\* generateMeetingSummary and the end of prisma.summary.create
PostProcessing == {"summarize", "summary.create"}

\* the stop-recording handlers of session s that are at one of the points pcs
StopsAt(s, pcs) ==
    {h \in DOMAIN handlers : /\ handlers[h].event = "stop-recording"
                             /\ handlers[h].sessionId = s
                             /\ handlers[h].pc \in pcs}

\* C21: whatever stops arrive for a session, one after another or together,
\* generateMeetingSummary is called at most once for it, at most one handler
\* is between that call and the Summary, and a Summary there is comes from
\* that one call, after the Transcript.
C21_PostProcessingOnce ==
    \A s \in DOMAIN summaryCalls :
        /\ summaryCalls[s] <= 1
        /\ Cardinality(StopsAt(s, PostProcessing)) <= summaryCalls[s]
        /\ MapHas(dbSummaries, s) =>
               summaryCalls[s] = 1 /\ MapHas(dbTranscripts, s)

\* a second stop of the session is in flight, about to be refused its
\* Transcript, while the first is at its summary
C21_Witness ==
    \E s \in DOMAIN summaryCalls :
        /\ summaryCalls[s] = 1
        /\ StopsAt(s, PostProcessing) # {}
        /\ StopsAt(s, {"transcript.create"}) # {}

(* One session's events and the other sessions *)

\* the session ids the handler that takes this step works for: that of a
\* handler that goes on or returns, that of one that has just arrived, and
\* that of an event answered at once
Acting ==
    {handlers[h].sessionId : h \in {g \in DOMAIN handlers : Stepped(g)}}
    \cup {handlers'[h].sessionId :
             h \in {g \in DOMAIN handlers' :
                       IF g \in DOMAIN handlers
                       THEN handlers'[g] # handlers[g] ELSE TRUE}}
    \cup (IF nEvents' # nEvents /\ finished' # None
          THEN {finished'[1].sessionId} ELSE {})

\* the step leaves what map m holds for key k as it is
SameAt(m, mAfter, k) ==
    /\ MapHas(m, k) <=> MapHas(mAfter, k)
    /\ MapHas(m, k) /\ MapHas(mAfter, k) => mAfter[k] = m[k]

\* C22: a step of a handler for session A leaves the processor (and so the
\* buffer), the accumulator and the Session, Transcript and Summary records
\* of every other session B as they are.
C22_OtherSessionsUntouched ==
    [][\A B \in 1..MaxSessions :
          B \notin Acting =>
              /\ SameAt(sessionProcessors, sessionProcessors', B)
              /\ SameAt(sessionTranscripts, sessionTranscripts', B)
              /\ SameAt(dbSessions, dbSessions', B)
              /\ SameAt(dbTranscripts, dbTranscripts', B)
              /\ SameAt(dbSummaries, dbSummaries', B)]_vars

\* session 2 has been stopped, and session 1 is still in the registry
C22_Witness ==
    /\ finished # None
    /\ finished[1].event = "stop-recording"
    /\ finished[1].outcome = "ok"
    /\ finished[1].sessionId = 2
    /\ MapHas(sessionProcessors, 1)
    /\ MapHas(sessionTranscripts, 1)
    /\ dbSessions[1].status = "RECORDING"

(* The transcript a stop persists *)

\* the literal the handler looks for in the flattened text
Marker == "Mock transcription"

\* the content the claim gives the Transcript of a stop that read the
\* fragments chunks and was given clientTranscript
ContentFor(chunks, clientTranscript) ==
    LET flattened == RenderedFrom(chunks, 1)
        replaces ==
            /\ clientTranscript # None
            /\ clientTranscript[1] # ""
            /\ flattened = "" \/ Includes(flattened, Marker)
    IN  IF replaces THEN clientTranscript[1]
        ELSE IF flattened = "" THEN "No transcript available"
        ELSE flattened

\* C23: the Transcript a stop has persisted holds the clientTranscript when
\* that is non-empty and the flattened text is empty or contains
\* "Mock transcription", and holds the flattened text otherwise (the
\* placeholder "No transcript available" where the text to save is empty);
\* a flattened text that is non-empty and without the marker is persisted
\* whatever the clientTranscript.
C23_ClientTranscriptFallback ==
    \A h \in DOMAIN handlers :
        /\ handlers[h].event = "stop-recording"
        /\ handlers[h].pc \in TranscriptCreated
        => LET r == handlers[h]
               flattened == RenderedFrom(r.data.chunks, 1)
           IN  /\ dbTranscripts[r.sessionId].content =
                      ContentFor(r.data.chunks, r.data.clientTranscript)
               /\ flattened # "" /\ ~Includes(flattened, Marker)
                  => dbTranscripts[r.sessionId].content = flattened

\* a stop that found mock fragments has persisted the client's words
C23_Witness ==
    \E h \in DOMAIN handlers :
        /\ handlers[h].event = "stop-recording"
        /\ handlers[h].pc \in TranscriptCreated
        /\ handlers[h].data.chunks # <<>>
        /\ Includes(RenderedFrom(handlers[h].data.chunks, 1), Marker)
        /\ handlers[h].data.clientTranscript = Some("client words")
        /\ dbTranscripts[handlers[h].sessionId].content = "client words"

(* audio-chunk handlers of one session, in flight together *)

\* the audio-chunk handlers of session s whose transcription this step ends
Completing(s) ==
    {h \in DOMAIN handlers : /\ handlers[h].event = "audio-chunk"
                             /\ handlers[h].sessionId = s
                             /\ Moved(h, "transcribe", "duration.update")}

\* the audio-chunk handlers of session s that this step starts
Accepting(s) ==
    {h \in DOMAIN handlers' \ DOMAIN handlers :
        /\ handlers'[h].event = "audio-chunk"
        /\ handlers'[h].sessionId = s}

\* how many of the chunks have the id
Copies(chunks, id) ==
    Cardinality({i \in 1..Len(chunks) : chunks[i].id = id})

\* seq is what is left of whole after some of its oldest items were dropped
IsSuffix(seq, whole) ==
    /\ Len(seq) <= Len(whole)
    /\ seq = SubSeq(whole, Len(whole) - Len(seq) + 1, Len(whole))

\* C24: while a session is in the registry, a step changes its accumulator
\* only by putting one fragment after those it holds, and does so exactly
\* when the step ends the transcription of one audio-chunk handler of the
\* session; a step changes its buffer only when it accepts a chunk of the
\* session, and the buffer then ends with that chunk, holds it once, and
\* holds before it what is left of the chunks it had.
C24_AppendsAreAtomic ==
    [][\A s \in DOMAIN sessionTranscripts \cap DOMAIN sessionTranscripts'
                \cap DOMAIN sessionProcessors \cap DOMAIN sessionProcessors' :
          LET before == sessionTranscripts[s]
              after == sessionTranscripts'[s]
              buffer == sessionProcessors'[s].chunks
          IN  /\ Cardinality(Completing(s)) <= 1
              /\ Len(after) = Len(before) + Cardinality(Completing(s))
              /\ SubSeq(after, 1, Len(before)) = before
              /\ IF Accepting(s) = {}
                 THEN sessionProcessors'[s] = sessionProcessors[s]
                 ELSE \A h \in Accepting(s) :
                        LET chunk == handlers'[h].data.chunk
                        IN  /\ buffer # <<>>
                            /\ buffer[Len(buffer)] = chunk
                            /\ Copies(buffer, chunk.id) = 1
                            /\ IsSuffix(SubSeq(buffer, 1, Len(buffer) - 1),
                                        sessionProcessors[s].chunks)]_vars

\* three audio-chunk handlers of the session were in flight together, all
\* three transcriptions have ended, and the accumulator has three fragments
C24_Witness ==
    /\ nEvents = 3
    /\ \A h \in DOMAIN handlers : handlers[h].pc = "duration.update"
    /\ Cardinality(DOMAIN handlers) = 3
    /\ Len(sessionTranscripts[1]) = 3
    /\ Len(sessionProcessors[1].chunks) >= 1

\* the audio-chunk handlers of session s that still await transcribeAudioChunk
Transcribing(s) ==
    {h \in DOMAIN handlers : /\ handlers[h].event = "audio-chunk"
                             /\ handlers[h].sessionId = s
                             /\ handlers[h].pc = "transcribe"}

\* C25: the step that ends the transcription of an audio-chunk handler puts
\* the fragment of that handler (the one with its timestamp) last in the
\* accumulator and broadcasts it, whether or not handlers of chunks that
\* arrived before it still await their transcription; so the accumulator is
\* in the order in which the transcriptions end. The chunks of a session
\* carry distinct timestamps here, which tells their fragments apart.
C25_AppendInCompletionOrder ==
    [][\A h \in DOMAIN handlers :
          Moved(h, "transcribe", "duration.update") =>
              LET s == handlers[h].sessionId
                  after == sessionTranscripts'[s]
                  last == after[Len(after)]
              IN  /\ after # <<>>
                  /\ last.timestamp = handlers[h].data.timestamp
                  /\ \A i \in 1..(Len(after) - 1) :
                        after[i].timestamp # last.timestamp
                  /\ \A g \in Transcribing(s) \ {h}, i \in 1..Len(after) :
                        after[i].timestamp # handlers[g].data.timestamp
                  /\ Len(emits') = 1
                  /\ emits'[1].event = "transcription-update"
                  /\ emits'[1].data.chunk = last]_vars

\* the chunk that arrived first is still being transcribed, and the fragments
\* of the two that arrived after it are in the accumulator, the later one
\* first
C25_Witness ==
    /\ Transcribing(1) = {1}
    /\ Len(sessionTranscripts[1]) = 2
    /\ sessionTranscripts[1][1].timestamp = 2500 + 1000 * 2
    /\ sessionTranscripts[1][2].timestamp = 2500 + 1000 * 1

(* A stop while transcriptions are in flight *)

\* the accumulator of session s as a handler reads it
Accumulated(s) ==
    IF MapHas(sessionTranscripts, s) THEN sessionTranscripts[s] ELSE <<>>

\* C26: the step in which a stop reads the accumulator takes the fragments
\* that are in it then, whatever transcriptions of the session are still in
\* flight; the Transcript the stop then persists has the flattening of those
\* fragments (or the clientTranscript in their place) as its content, whatever
\* has been appended since; and no later step changes a persisted Transcript.
C26_StopDoesNotWait ==
    [][/\ \A h \in DOMAIN handlers :
            LET s == handlers[h].sessionId
            IN  /\ Moved(h, "processing.updated", "transcript.create")
                   => handlers'[h].data.chunks = Accumulated(s)
                /\ Moved(h, "transcript.create", "summarize")
                   => /\ MapHas(dbTranscripts', s)
                      /\ dbTranscripts'[s].content =
                             ContentFor(handlers[h].data.chunks,
                                        handlers[h].data.clientTranscript)
       /\ \A s \in DOMAIN dbTranscripts :
            /\ MapHas(dbTranscripts', s)
            /\ dbTranscripts'[s] = dbTranscripts[s]]_vars

\* the stop has persisted COMPLETED and a Transcript without fragments, and
\* the fragment of a chunk that was in flight is in the accumulator
C26_Witness ==
    \E h \in DOMAIN handlers :
        LET s == handlers[h].sessionId
        IN  /\ handlers[h].event = "stop-recording"
            /\ handlers[h].pc = "completed.updated"
            /\ dbSessions[s].status = "COMPLETED"
            /\ handlers[h].data.chunks = <<>>
            /\ handlers[h].data.clientTranscript = None
            /\ dbTranscripts[s].content = "No transcript available"
            /\ Len(Accumulated(s)) = 1

(* The accumulator of a session in the registry *)

\* seq is the beginning of whole
IsPrefix(seq, whole) ==
    /\ Len(seq) <= Len(whole)
    /\ seq = SubSeq(whole, 1, Len(seq))

\* this step is the clean up of a stop of session s that went through
CleansUp(s) ==
    \E h \in DOMAIN handlers :
        /\ handlers[h].sessionId = s
        /\ Returned(h, "completed.updated")

\* C27: a step leaves the accumulator of a session in the registry, with the
\* fragments it holds as the beginning of those it holds after the step;
\* the one step that does not is the clean up of a stop of that session that
\* has persisted COMPLETED. So no pause, resume, audio-chunk or failed stop
\* removes, reorders or rewrites a fragment.
C27_AccumulatorAppendOnly ==
    [][\A s \in DOMAIN sessionTranscripts :
          \/ /\ MapHas(sessionTranscripts', s)
             /\ IsPrefix(sessionTranscripts[s], sessionTranscripts'[s])
          \/ CleansUp(s)]_vars

\* a stop of the session has failed, and the fragment is where it was
C27_Witness ==
    /\ finished # None
    /\ finished[1].event = "stop-recording"
    /\ finished[1].outcome = "error"
    /\ MapHas(sessionTranscripts, finished[1].sessionId)
    /\ Len(sessionTranscripts[finished[1].sessionId]) = 1
    /\ finished[1].data.chunks = sessionTranscripts[finished[1].sessionId]

(* The registry entries of the sessions *)

\* C28: a session that was started and that no stop has cleaned up has a
\* processor in sessionProcessors and an accumulator in sessionTranscripts,
\* and no session id has one of the two without the other.
C28_OneEntryOfBothMaps ==
    /\ \A s \in DOMAIN rooms \ cleaned :
          MapHas(sessionProcessors, s) /\ MapHas(sessionTranscripts, s)
    /\ DOMAIN sessionProcessors = DOMAIN sessionTranscripts

(* The steps of a stop that goes through *)

\* the status-update a stop-recording handler h broadcasts
StatusEmit(h, status) ==
    <<[event |-> "status-update", to |-> Room(handlers[h].sessionId),
       room |-> Some(handlers[h].sessionId),
       data |-> [sessionId |-> handlers[h].sessionId, status |-> status],
       by |-> h]>>

\* this step of handler h is not one into or inside its catch block
GoesThrough(h) ==
    /\ handlers[h].event = "stop-recording"
    /\ Stepped(h)
    /\ handlers[h].pc # "error.update"
    /\ IF h \in DOMAIN handlers' THEN handlers'[h].pc # "error.update"
       ELSE TRUE

TranscriptionUpdates(s) ==
    {i \in 1..Len(emits') : /\ emits'[i].event = "transcription-update"
                            /\ emits'[i].data.sessionId = s}

\* C30: for a session whose persisted status is not RECORDING or PAUSED, a
\* step accepts no chunk (none is buffered, no transcription is called),
\* appends no fragment to its accumulator, and broadcasts no
\* transcription-update; so none follows status-update(COMPLETED).
C30_ChunksOnlyWhileRecordingOrPaused ==
    [][\A s \in DOMAIN dbSessions :
          dbSessions[s].status \notin {"RECORDING", "PAUSED"} =>
              /\ Accepting(s) = {}
              /\ Completing(s) = {}
              /\ Len(IF MapHas(sessionTranscripts', s)
                     THEN sessionTranscripts'[s] ELSE <<>>)
                     <= Len(Accumulated(s))
              /\ TranscriptionUpdates(s) = {}]_vars

(* The lifecycle of a session *)

\* the handlers that take a step here and work for session s
SteppingFor(s) ==
    {h \in DOMAIN handlers : Stepped(h) /\ handlers[h].sessionId = s}

\* C31: a step changes the persisted status of a session only along the
\* lifecycle: a pause-recording handler only from RECORDING to PAUSED, a
\* resume-recording handler only from PAUSED to RECORDING, a stop-recording
\* handler to PROCESSING only from RECORDING or PAUSED, then from PROCESSING
\* to COMPLETED, or from a non-terminal status to ERROR; an event received
\* in another state leaves the status as it is.
C31_LifecycleTransitions ==
    [][\A s \in DOMAIN dbSessions :
          LET before == dbSessions[s].status
              after == dbSessions'[s].status
          IN  after # before =>
                  \A h \in SteppingFor(s) :
                      /\ handlers[h].event = "pause-recording"
                         => before = "RECORDING" /\ after = "PAUSED"
                      /\ handlers[h].event = "resume-recording"
                         => before = "PAUSED" /\ after = "RECORDING"
                      /\ handlers[h].event = "stop-recording"
                         => \/ /\ before \in {"RECORDING", "PAUSED"}
                               /\ after = "PROCESSING"
                            \/ /\ before = "PROCESSING"
                               /\ after = "COMPLETED"
                            \/ /\ before \notin TerminalStatus
                               /\ after = "ERROR"
                      /\ handlers[h].event \in
                             {"pause-recording", "resume-recording",
                              "stop-recording"}]_vars

(* A start that goes through *)

\* C32: the step in which prisma.session.create takes effect makes a record
\* with an id no record had, with status RECORDING, and emits nothing; the
\* step in which the handler goes on gives that id, which had none, an empty
\* processor and an empty accumulator, puts the sender in the room of the
\* id, and emits one event, session-created with that id, to the sender
\* alone; the record is still RECORDING then, and the handler returns.
C32_StartCreatesSession ==
    [][\A h \in DOMAIN handlers :
          /\ Moved(h, "session.create", "session.created") =>
                LET id == handlers'[h].sessionId
                IN  /\ id # UnknownSession
                    /\ ~MapHas(dbSessions, id)
                    /\ MapHas(dbSessions', id)
                    /\ dbSessions'[id].status = "RECORDING"
                    /\ emits' = <<>>
                    /\ UNCHANGED <<sessionProcessors, sessionTranscripts,
                                   rooms>>
          /\ At(h, "session.created") /\ Stepped(h) =>
                LET id == handlers[h].sessionId
                IN  /\ Returned(h, "session.created")
                    /\ ~MapHas(sessionProcessors, id)
                    /\ ~MapHas(sessionTranscripts, id)
                    /\ ~MapHas(rooms, id)
                    /\ MapHas(sessionProcessors', id)
                    /\ sessionProcessors'[id].chunks = <<>>
                    /\ sessionProcessors'[id].currentBufferSize = 0
                    /\ MapHas(sessionTranscripts', id)
                    /\ sessionTranscripts'[id] = <<>>
                    /\ MapHas(rooms', id)
                    /\ rooms'[id] = {handlers[h].conn}
                    /\ emits' = <<[event |-> "session-created",
                                  to |-> {handlers[h].conn}, room |-> None,
                                  data |-> [sessionId |-> id], by |-> h]>>
                    /\ dbSessions[id].status = "RECORDING"
                    /\ UNCHANGED dbVars]_vars

\* a second session has been started, after the first
C32_Witness ==
    /\ finished # None
    /\ finished[1].event = "start-recording"
    /\ finished[1].outcome = "ok"
    /\ finished[1].sessionId = 2
    /\ Len(emits) = 1
    /\ emits[1].event = "session-created"
    /\ emits[1].data.sessionId = 2
    /\ DOMAIN rooms = {1, 2}
    /\ sessionTranscripts[2] = <<>>

(* A transcription that fails *)

\* the fragment is the placeholder of a failed transcription
IsErrorPlaceholder(fragment) ==
    /\ Len(fragment.text) >= 21
    /\ SubSeq(fragment.text, 1, 21) = "[Transcription error:"

\* this step ends the transcription of audio-chunk handler h with a
\* placeholder, or ends the handler in its catch block
TranscriptionFailed(h) ==
    LET s == handlers[h].sessionId
    IN  \/ /\ Moved(h, "transcribe", "duration.update")
           /\ MapHas(sessionTranscripts', s)
           /\ sessionTranscripts'[s] # <<>>
           /\ IsErrorPlaceholder(
                  sessionTranscripts'[s][Len(sessionTranscripts'[s])])
        \/ /\ Returned(h, "duration.update")
           /\ "Error transcribing chunk:" \in finished'[1].logged

\* C33: the step in which the transcription of a chunk fails emits no error
\* event, leaves the persisted records, and leaves the buffer with what it
\* held, the chunk of the handler (buffered when the event arrived) included
\* unless chunks that came later have pushed it out; the session keeps its
\* processor and its accumulator.
C33_FailedTranscriptionIsNotFatal ==
    [][\A h \in DOMAIN handlers :
          handlers[h].event = "audio-chunk" /\ TranscriptionFailed(h) =>
              LET s == handlers[h].sessionId
              IN  /\ \A i \in 1..Len(emits') : emits'[i].event # "error"
                  /\ UNCHANGED dbVars
                  /\ UNCHANGED sessionProcessors
                  /\ MapHas(sessionProcessors', s)
                  /\ MapHas(sessionTranscripts', s)
                  /\ IsPrefix(Accumulated(s), sessionTranscripts'[s])]_vars

\* after a placeholder, the fragment of a later chunk; the session records
\* and buffers as before
C33_Witness ==
    /\ Len(sessionTranscripts[1]) = 2
    /\ IsErrorPlaceholder(sessionTranscripts[1][1])
    /\ sessionTranscripts[1][1].timestamp < sessionTranscripts[1][2].timestamp
    /\ sessionTranscripts[1][2].text = "world"
    /\ dbSessions[1].status = "RECORDING"
    /\ Len(sessionProcessors[1].chunks) >= 1
    /\ handlers = <<>>

(* What transcribeAudioChunk resolves to *)

\* C34: a transcribeAudioChunk call resolves, whatever the API did, to a
\* fragment with the timestamp it was given; without an API key, and when
\* the API failed, the fragment has no speaker label and its text is the
\* placeholder of that path (the error placeholder carries the message of
\* the error, or "Unknown error").
C34_TranscribeResolvesToFragment ==
    transcribeOut.returned =>
        LET fragment == transcribeOut.value
            gemini == transcribeIn.gemini
        IN  /\ DOMAIN fragment = {"timestamp", "text", "speaker"}
            /\ fragment.timestamp = transcribeIn.timestamp
            /\ ~apiKey =>
                   /\ fragment.speaker = None
                   /\ Includes(fragment.text, Marker)
                   /\ ~IsErrorPlaceholder(fragment)
            /\ apiKey /\ gemini.kind = "error" =>
                   /\ fragment.speaker = None
                   /\ IsErrorPlaceholder(fragment)
                   /\ Includes(fragment.text,
                               IF gemini.message = "" THEN "Unknown error"
                               ELSE gemini.message)
            /\ apiKey /\ gemini.kind = "text" =>
                   ~IsErrorPlaceholder(fragment)

\* the API failed without a message for a chunk at 1500 ms
C34_Witness ==
    /\ transcribeOut.returned
    /\ apiKey
    /\ transcribeIn.gemini = [kind |-> "error", message |-> ""]
    /\ transcribeIn.timestamp = 1500
    /\ transcribeOut.value.timestamp = 1500
    /\ transcribeOut.value.speaker = None
    /\ Includes(transcribeOut.value.text, "[Transcription error: Unknown error")

(* The duration a stop supplies *)

\* C35: when a stop-recording that carried a duration d has gone through
\* (its last step has emitted status-update(COMPLETED)), the persisted
\* duration of the session is d, for every d, 0 included.
C35_SuppliedDurationPersisted ==
    /\ finished # None
    /\ finished[1].event = "stop-recording"
    /\ finished[1].outcome = "ok"
    /\ finished[1].data.duration # None
    => dbSessions[finished[1].sessionId].duration
           = finished[1].data.duration[1]

(* The byte counter of the AudioProcessor *)

HeldIds(this) == {this.chunks[i].id : i \in 1..Len(this.chunks)}

\* C36: after any sequence of addChunk, clear and getAndClearChunks calls
\* the tracked byte counter (getBufferSize) is the sum of the byte lengths
\* of the chunks held, it is never negative, getChunkCount is the number of
\* chunks held, and the counter is 0 exactly when that sum is 0.
C36_CounterIsSumOfHeldBytes ==
    /\ getBufferSize(processor) = SumByteLength(processor.chunks)
    /\ getBufferSize(processor) >= 0
    /\ getChunkCount(processor) = Cardinality(HeldIds(processor))
    /\ (getBufferSize(processor) = 0) <=> (processor.chunks = <<>>)

\* an addChunk that evicted chunks: the counter went down by the bytes of
\* the chunks removed and up by the bytes of the chunk added
C36_Witness ==
    /\ call.op = "addChunk"
    /\ Len(processor.chunks) < Len(call.pre.chunks) + 1
    /\ getBufferSize(processor) > 0

(* What is broadcast and what is accumulated *)

IsTranscriptionUpdateFor(e, s) ==
    /\ e.event = "transcription-update"
    /\ e.data.sessionId = s

\* the fragments of the transcription-update events among es that are for
\* session s, in the order of es
FragmentsBroadcast(es, s) ==
    LET Test(e) == IsTranscriptionUpdateFor(e, s)
        updates == SelectSeq(es, Test)
    IN  [i \in 1..Len(updates) |-> updates[i].data.chunk]

\* C37: while session s has its accumulator, the fragments a step
\* broadcasts for s in transcription-update events are, one for one and in
\* order, the fragments the step appends to the accumulator; so the sequence
\* broadcast and the sequence appended are the same sequence.
C37_BroadcastIsWhatIsAppended ==
    [][\A s \in DOMAIN sessionTranscripts :
          LET broadcast == FragmentsBroadcast(emits', s)
          IN  IF MapHas(sessionTranscripts', s)
              THEN sessionTranscripts'[s]
                       = sessionTranscripts[s] \o broadcast
              ELSE broadcast = <<>>]_vars

\* the fragment of a chunk has just been appended after an earlier one, one
\* of the two a placeholder, and it is the fragment being broadcast
C37_Witness ==
    /\ Len(emits) = 1
    /\ IsTranscriptionUpdateFor(emits[1], 1)
    /\ Len(sessionTranscripts[1]) >= 2
    /\ emits[1].data.chunk = sessionTranscripts[1][Len(sessionTranscripts[1])]
    /\ \E i \in 1..Len(sessionTranscripts[1]) :
          IsErrorPlaceholder(sessionTranscripts[1][i])

(* The running duration *)

\* C38: for a session whose chunks arrive with strictly increasing
\* timestamps, no step makes the persisted duration smaller, whatever the
\* order in which the transcriptions and the duration updates complete.
C38_RunningDurationNeverDecreases ==
    [][\A s \in DOMAIN dbSessions :
          MapHas(dbSessions', s) =>
              dbSessions'[s].duration >= dbSessions[s].duration]_vars

(* The end of processing *)

\* the persisted status of session s is one of statuses
StatusIn(s, statuses) ==
    MapHas(dbSessions, s) /\ dbSessions[s].status \in statuses

\* C39: when every call a handler awaits returns or fails in the end, a
\* session whose persisted status has become PROCESSING has the persisted
\* status COMPLETED or ERROR in the end, also when the write of the ERROR
\* status fails.
C39_ProcessingEnds ==
    \A s \in 1..MaxSessions :
        StatusIn(s, {"PROCESSING"}) ~> StatusIn(s, {"COMPLETED", "ERROR"})

====
